---- MODULE Spec2Model ----
(***************************************************************************)
(* A model of llmcpd's indexing core:                                      *)
(*   - DeepCrawler (src/src/indexing/crawler.ts) and the crawl worker      *)
(*     (src/src/indexing/crawler-worker.ts),                               *)
(*   - SearchIndex (src/src/indexing/search.ts),                           *)
(*   - CacheManager (src/src/indexing/cache.ts).                           *)
(* Each component has its own specification (SpecCrawl, SpecIndex,         *)
(* SpecCache); the variables of the other components stay parked.          *)
(***************************************************************************)
EXTENDS Integers, Sequences, FiniteSets, TLC

VARIABLES
    \* ---- DeepCrawler (crawler.ts:27-36)
    options,         \* CrawlerOptions: maxDepth, maxWorkers, maxDocuments
    crawledUrls,     \* Set<string>
    pendingTasks,    \* CrawlTask[]
    activeWorkers,   \* number
    results,         \* CrawledDocument[]
    activePromises,  \* processTasks' local set of outstanding runWorker promises
    workers,         \* one record per Worker created by runWorker, in creation order
    initialUrls,     \* the argument of the crawl() call
    pc,              \* where the crawl() call stands
    \* ---- SearchIndex (search.ts:61-67)
    documents,       \* Map<string, SearchDocument>, in insertion order
    termDocFreq,     \* Map<string, number>
    termFreq,        \* Map<string, Map<string, number>>
    docLengths,      \* Map<string, number>
    avgDocLength,    \* number
    totalDocLength,  \* number
    lastUpsert,      \* the last upsert: the version it replaced and the new one
    lastSearch,      \* the last search call and what it returned
    lastClear,       \* whether clear() has been called, and whether it dropped documents
    \* ---- CacheManager (cache.ts:16-17)
    files,           \* the files of cacheDir, by file name
    calls,           \* the fetch() call of each caller
    clock,           \* new Date(): the number of calls started
    persisted,       \* history: every entry a writer has written to cacheDir
    \* ---- IndexingService (server.ts:603-618)
    serviceOptions,  \* IndexingOptions
    parsed,          \* ParsedLlms | null
    cachedDocuments, \* documents: Map<string, CachedDocument>, in insertion order
    status,          \* IndexStatus
    passes,          \* the indexAll() calls under way
    phase,           \* where startServer stands
    started,         \* the number of indexAll() calls started
    \* ---- llms-full worker (part_002)
    workerMarkdown,  \* the document the worker chunks
    workerChunks     \* what chunkMarkdown returned

crawlVars == <<options, crawledUrls, pendingTasks, activeWorkers, results,
               activePromises, workers, initialUrls, pc>>

indexVars == <<documents, termDocFreq, termFreq, docLengths, avgDocLength,
               totalDocLength, lastUpsert, lastSearch, lastClear>>

cacheVars == <<files, calls, clock, persisted>>

serviceVars == <<serviceOptions, parsed, cachedDocuments, status, passes, phase, started>>

workerVars == <<workerMarkdown, workerChunks>>

vars == <<crawlVars, indexVars, cacheVars, serviceVars, workerVars>>

(***************************************************************************)
(* Bounds of the model.                                                    *)
(***************************************************************************)
MaxDepthBound == 2
MaxWorkersBound == 2
MaxDocumentsBound == 3

(***************************************************************************)
(* URLs are sequences of lexical pieces, so that the ".md" tests of the    *)
(* code can be computed on them.                                           *)
(***************************************************************************)
UrlA == <<"A", ".md">>
UrlB == <<"B", ".md">>
UrlC == <<"C", ".md">>
UrlD == <<"D", ".md">>
UrlAFrag == <<"A", ".md", "#", "top">>
UrlHtml == <<"page", ".html">>
UrlAnchor == <<"#", "top">>

\* url.endsWith(".md") || url.includes(".md#")
IsMarkdownUrl(url) ==
    \/ (Len(url) > 0 /\ url[Len(url)] = ".md")
    \/ \E i \in 1..(Len(url) - 1) : url[i] = ".md" /\ url[i + 1] = "#"

\* url.startsWith("#")
StartsWithHash(url) == Len(url) > 0 /\ url[1] = "#"

\* The link targets written in each page, in text order (the remote site).
PageLinks(url) ==
    CASE url = UrlA -> <<UrlAnchor, UrlB, UrlHtml, UrlC, UrlB>>
      [] url = UrlB -> <<UrlD>>
      [] url = UrlC -> <<UrlD, UrlA>>
      [] OTHER -> <<>>

\* [...new Set(links)]: the first occurrence of each element, in order
RECURSIVE Dedupe(_)
Dedupe(s) ==
    IF s = <<>> THEN <<>>
    ELSE LET front == Dedupe(SubSeq(s, 1, Len(s) - 1))
             last == s[Len(s)]
         IN IF \E i \in 1..Len(front) : front[i] = last
            THEN front
            ELSE Append(front, last)

KeepLink(url) == ~StartsWithHash(url) /\ IsMarkdownUrl(url)

extractMarkdownLinks(content) == Dedupe(SelectSeq(content, KeepLink))

\* The depth test of the worker's crawl(): links only below maxDepth.
MayExtractMutant(task) == task.depth <= task.maxDepth
MayExtract(task) == task.depth < task.maxDepth

\* crawl(task) of the worker: the CrawlResult for a fetch that is ok or not.
WorkerCrawl(task, ok) ==
    IF ~ok
    THEN [url |-> task.url, content |-> <<>>, links |-> <<>>,
          depth |-> task.depth, error |-> TRUE]
    ELSE [url |-> task.url, content |-> PageLinks(task.url),
          links |-> IF MayExtract(task)
                    THEN extractMarkdownLinks(PageLinks(task.url))
                    ELSE <<>>,
          depth |-> task.depth, error |-> FALSE]

(***************************************************************************)
(* Seed lists handed to crawl().                                           *)
(***************************************************************************)
Seed(url, section, title) == [url |-> url, section |-> section, title |-> <<title>>]

SeedLists ==
    { <<Seed(UrlA, "Docs", "a")>>,
      <<Seed(UrlA, "Docs", "a"), Seed(UrlA, "Api", "a2")>>,
      <<Seed(UrlB, "Docs", "b"), Seed(UrlHtml, "Docs", "h"), Seed(UrlAFrag, "Api", "a3")>>,
      <<Seed(UrlA, "Docs", "a"), Seed(UrlB, "Docs", "b"), Seed(UrlC, "Api", "c")>>,
      <<Seed(UrlA, "Docs", "a"), Seed(UrlC, "Api", "c")>> }

\* crawler.ts:10, 67 the budget of a crawl whose options name none
DEFAULT_MAX_CRAWL_DOCUMENTS == 100

OptionSets ==
    [maxDepth : 0..MaxDepthBound,
     maxWorkers : 0..MaxWorkersBound,
     maxDocuments : (0..MaxDocumentsBound) \cup {DEFAULT_MAX_CRAWL_DOCUMENTS}]

\* The tasks crawl() pushes for its seeds (crawler.ts:46-57).
SeedTasksMutant(seeds, maxDepth) ==
    [k \in 1..Len(seeds) |->
        [url |-> seeds[k].url, depth |-> 0, maxDepth |-> maxDepth,
         parentUrl |-> <<>>, section |-> seeds[k].section, title |-> seeds[k].title]]
RECURSIVE SeedTasks(_, _)
SeedTasks(seeds, maxDepth) ==
    IF seeds = <<>> THEN <<>>
    ELSE LET s == Head(seeds)
             rest == SeedTasks(Tail(seeds), maxDepth)
         IN IF IsMarkdownUrl(s.url)
            THEN <<[url |-> s.url, depth |-> 0, maxDepth |-> maxDepth,
                    parentUrl |-> <<>>, section |-> s.section, title |-> s.title]>>
                 \o rest
            ELSE rest

(***************************************************************************)
(* The coordinator's state as one record, so that the synchronous stretch  *)
(* of processTasks between two awaits is one function of it.               *)
(***************************************************************************)
Coord ==
    [pendingTasks |-> pendingTasks, crawledUrls |-> crawledUrls,
     activeWorkers |-> activeWorkers, results |-> results,
     activePromises |-> activePromises, workers |-> workers, pc |-> pc]

Commit(s) ==
    /\ pendingTasks' = s.pendingTasks
    /\ crawledUrls' = s.crawledUrls
    /\ activeWorkers' = s.activeWorkers
    /\ results' = s.results
    /\ activePromises' = s.activePromises
    /\ workers' = s.workers
    /\ pc' = s.pc

NewWorker(task) ==
    [task |-> task, phase |-> "running", settled |-> FALSE, settledBy |-> "none",
     decrements |-> 0, links |-> <<>>]

\* crawler.ts:88 the visited check, crawler.ts:92 the mark
AlreadyCrawledMutant(s, task) == FALSE
AlreadyCrawled(s, task) == task.url \in s.crawledUrls

\* crawler.ts:80-84 the admission test of the inner loop
MayStartMutant(s) ==
    /\ Len(s.pendingTasks) > 0
    /\ s.activeWorkers <= options.maxWorkers
    /\ Len(s.results) < options.maxDocuments
MayStart(s) ==
    /\ Len(s.pendingTasks) > 0
    /\ s.activeWorkers < options.maxWorkers
    /\ Len(s.results) < options.maxDocuments

\* crawler.ts:80-102 the inner while loop
RECURSIVE StartWorkers(_)
StartWorkers(s) ==
    IF MayStart(s)
    THEN LET task == Head(s.pendingTasks)
             shifted == [s EXCEPT !.pendingTasks = Tail(@)]
         IN IF AlreadyCrawled(shifted, task)
            THEN StartWorkers(shifted)
            ELSE StartWorkers(
                   [shifted EXCEPT !.crawledUrls = @ \cup {task.url},
                                   !.activeWorkers = @ + 1,
                                   !.workers = Append(@, NewWorker(task)),
                                   !.activePromises = @ \cup {Len(s.workers) + 1}])
    ELSE s

\* crawler.ts:115-118 after the loop; then crawl() returns this.results
AfterLoopMutant(s) == [s EXCEPT !.pc = "done"]
AfterLoop(s) ==
    IF s.activePromises # {} THEN [s EXCEPT !.pc = "all"] ELSE [s EXCEPT !.pc = "done"]

\* crawler.ts:71-77 the budget is reached: this.pendingTasks = [], break
BudgetReachedMutant(s) == s
BudgetReached(s) == [s EXCEPT !.pendingTasks = <<>>]

\* crawler.ts:69-113 a round of the outer loop that changes nothing and meets
\* neither await (crawler.ts:105-112) is repeated for ever: the loop never
\* yields, so no handler can run
Spins(s, t) == t = s /\ ~(Len(t.pendingTasks) = 0 /\ t.activeWorkers > 0)

\* crawler.ts:69-113 the outer loop, from its head to the next await
RECURSIVE ProcessTasks(_)
RECURSIVE IdleCheck(_)
ProcessTasks(s) ==
    IF ~(Len(s.pendingTasks) > 0 \/ s.activeWorkers > 0)
    THEN AfterLoop(s)
    ELSE IF Len(s.results) >= options.maxDocuments
         THEN AfterLoop(BudgetReached(s))
         ELSE LET t == StartWorkers(s)
              IN IF t.activeWorkers >= options.maxWorkers /\ t.activePromises # {}
                 THEN [t EXCEPT !.pc = "race"]
                 ELSE IF Spins(s, t) THEN [t EXCEPT !.pc = "spin"]
                 ELSE IdleCheck(t)

\* crawler.ts:110-112 the idle wait, then back to the loop head
IdleCheck(s) ==
    IF Len(s.pendingTasks) = 0 /\ s.activeWorkers > 0
    THEN [s EXCEPT !.pc = "sleep"]
    ELSE ProcessTasks(s)

\* crawler.ts:158-169 the child tasks of a successful result
ChildTasksMutant(links, result, task, crawled) ==
    [k \in 1..Len(links) |->
        [url |-> links[k], depth |-> result.depth + 1, maxDepth |-> task.maxDepth,
         parentUrl |-> result.url, section |-> task.section,
         title |-> Append(task.title, "(linked)")]]
RECURSIVE ChildTasks(_, _, _, _)
ChildTasks(links, result, task, crawled) ==
    IF links = <<>> THEN <<>>
    ELSE LET rest == ChildTasks(Tail(links), result, task, crawled)
         IN IF Head(links) \notin crawled
            THEN <<[url |-> Head(links), depth |-> result.depth + 1,
                    maxDepth |-> task.maxDepth, parentUrl |-> result.url,
                    section |-> task.section,
                    title |-> Append(task.title, "(linked)")]>> \o rest
            ELSE rest

\* crawler.ts:183 the error handler resolves, it does not reject
ErrorSettlesMutant == "reject"
ErrorSettles == "resolve"

\* crawler.ts:139, 177, 188 the settled guard shared by the three handlers
IsSettledMutant(w) == FALSE
IsSettled(w) == w.settled

\* What the coordinator does once a runWorker promise has settled: the
\* finally callback (crawler.ts:99-101), then the awaiting processTasks
\* resumes if this is what it waits for.
Resume(s, i, how) ==
    LET t == [s EXCEPT !.activePromises = @ \ {i}]
    IN IF how = "reject" THEN [t EXCEPT !.pc = "rejected"]
       ELSE IF t.pc = "race" THEN IdleCheck(t)
       ELSE IF t.pc = "all" /\ t.activePromises = {} THEN [t EXCEPT !.pc = "done"]
       ELSE t

\* crawler.ts:138-174 worker.on("message")
OnMessage(s, i, result) ==
    LET w == s.workers[i]
        posted == [s EXCEPT !.workers[i].phase = "posted"]
    IN IF IsSettled(w) THEN posted
       ELSE LET base == [posted EXCEPT
                           !.workers[i].settled = TRUE,
                           !.workers[i].settledBy = IF result.error THEN "failure" ELSE "success",
                           !.workers[i].decrements = @ + 1,
                           !.workers[i].links = result.links,
                           !.activeWorkers = @ - 1]
                added == IF result.error THEN base
                         ELSE [base EXCEPT
                                 !.results = Append(@,
                                     [url |-> result.url, content |-> result.content,
                                      depth |-> result.depth, section |-> w.task.section,
                                      title |-> w.task.title]),
                                 !.pendingTasks = @ \o
                                     ChildTasks(result.links, result, w.task, s.crawledUrls)]
            IN Resume(added, i, "resolve")

\* crawler.ts:176-185 worker.on("error")
OnError(s, i) ==
    LET w == s.workers[i]
        seen == [s EXCEPT !.workers[i].phase = "errored"]
    IN IF IsSettled(w) THEN seen
       ELSE Resume([seen EXCEPT !.workers[i].settled = TRUE,
                                !.workers[i].settledBy = "error",
                                !.workers[i].decrements = @ + 1,
                                !.activeWorkers = @ - 1],
                   i, ErrorSettles)

\* crawler.ts:187-196 worker.on("exit")
OnExit(s, i) ==
    LET w == s.workers[i]
        gone == [s EXCEPT !.workers[i].phase = "exited"]
    IN IF IsSettled(w) THEN gone
       ELSE Resume([gone EXCEPT !.workers[i].settled = TRUE,
                                !.workers[i].settledBy = "exit",
                                !.workers[i].decrements = @ + 1,
                                !.activeWorkers = @ - 1],
                   i, "resolve")

\* The coordinator is suspended (at an await, or crawl() is over): only then
\* can an event handler run.
Suspended == pc \in {"race", "sleep", "all", "done", "rejected"}

(***************************************************************************)
(* Actions of the crawl.                                                   *)
(***************************************************************************)
CrawlInit ==
    /\ options \in OptionSets
    /\ crawledUrls = {}
    /\ pendingTasks = <<>>
    /\ activeWorkers = 0
    /\ results = <<>>
    /\ activePromises = {}
    /\ workers = <<>>
    /\ initialUrls = <<>>
    /\ pc = "new"

\* crawler.ts:38-63 crawl(initialUrls), up to the first await of processTasks
Crawl ==
    /\ pc = "new"
    /\ \E seeds \in SeedLists :
          /\ initialUrls' = seeds
          /\ Commit(ProcessTasks([Coord EXCEPT
                    !.crawledUrls = {},
                    !.results = <<>>,
                    !.pendingTasks = SeedTasks(seeds, options.maxDepth)]))
    /\ UNCHANGED <<options, indexVars, cacheVars, serviceVars, workerVars>>

\* crawler.ts:111 the timer of the idle wait fires
WakeUp ==
    /\ pc = "sleep"
    /\ Commit(ProcessTasks(Coord))
    /\ UNCHANGED <<options, initialUrls, indexVars, cacheVars, serviceVars, workerVars>>

\* The worker posts its result (crawler-worker.ts:192-207).
WorkerMessage ==
    /\ Suspended
    /\ \E i \in 1..Len(workers), ok \in BOOLEAN :
          /\ workers[i].phase = "running"
          /\ Commit(OnMessage(Coord, i, WorkerCrawl(workers[i].task, ok)))
    /\ UNCHANGED <<options, initialUrls, indexVars, cacheVars, serviceVars, workerVars>>

\* The worker thread raises an uncaught error.
WorkerError ==
    /\ Suspended
    /\ \E i \in 1..Len(workers) :
          /\ workers[i].phase \in {"running", "posted"}
          /\ Commit(OnError(Coord, i))
    /\ UNCHANGED <<options, initialUrls, indexVars, cacheVars, serviceVars, workerVars>>

\* The worker thread ends.
WorkerExit ==
    /\ Suspended
    /\ \E i \in 1..Len(workers) :
          /\ workers[i].phase # "exited"
          /\ Commit(OnExit(Coord, i))
    /\ UNCHANGED <<options, initialUrls, indexVars, cacheVars, serviceVars, workerVars>>

CrawlNext == Crawl \/ WakeUp \/ WorkerMessage \/ WorkerError \/ WorkerExit


(***************************************************************************)
(* SearchIndex (src/src/indexing/search.ts).  Strings are sequences of     *)
(* one-character strings, so that tokenize is computed, not assumed.       *)
(***************************************************************************)
UpperChars ==
    <<"A", "B", "C", "D", "E", "F", "G", "H", "I", "J", "K", "L", "M", "N", "O", "P", "Q", "R", "S", "T", "U", "V", "W", "X", "Y", "Z">>
LowerChars ==
    <<"a", "b", "c", "d", "e", "f", "g", "h", "i", "j", "k", "l", "m", "n", "o", "p", "q", "r", "s", "t", "u", "v", "w", "x", "y", "z">>
DigitChars == {"0", "1", "2", "3", "4", "5", "6", "7", "8", "9"}
WhiteSpaceChars == {" ", "\t", "\n", "\r"}

Range(s) == {s[i] : i \in DOMAIN s}

stopWords ==
    { <<"t", "h", "e">>,
      <<"a", "n", "d">>,
      <<"o", "r">>,
      <<"f", "o", "r">>,
      <<"w", "i", "t", "h">>,
      <<"t", "h", "a", "t">>,
      <<"t", "h", "i", "s">>,
      <<"f", "r", "o", "m">>,
      <<"i", "n", "t", "o">>,
      <<"y", "o", "u", "r">>,
      <<"y", "o", "u">>,
      <<"a", "r", "e">>,
      <<"w", "a", "s">>,
      <<"w", "e", "r", "e">>,
      <<"h", "a", "s">>,
      <<"h", "a", "v", "e">>,
      <<"h", "a", "d">>,
      <<"i", "t", "s">>,
      <<"a", "b", "o", "u", "t">>,
      <<"c", "a", "n">>,
      <<"w", "i", "l", "l">>,
      <<"n", "o", "t">>,
      <<"u", "s", "e">>,
      <<"u", "s", "i", "n", "g">>,
      <<"u", "s", "e", "d">>,
      <<"v", "i", "a">>,
      <<"h", "o", "w">>,
      <<"w", "h", "a", "t">>,
      <<"w", "h", "e", "n">>,
      <<"w", "h", "e", "r", "e">>,
      <<"w", "h", "o">> }

\* String.prototype.toLowerCase on the characters of the model
toLowerCase(text) ==
    [i \in 1..Len(text) |->
        IF \E k \in 1..Len(UpperChars) : UpperChars[k] = text[i]
        THEN LowerChars[CHOOSE k \in 1..Len(UpperChars) : UpperChars[k] = text[i]]
        ELSE text[i]]

\* .replace(/[^a-z0-9\s]/g, " ")
ReplaceNonAlnum(text) ==
    [i \in 1..Len(text) |->
        IF text[i] \in Range(LowerChars) \cup DigitChars \cup WhiteSpaceChars
        THEN text[i]
        ELSE " "]

\* .split(/\s+/): the pieces between maximal runs of white space
Positions(text) == [i \in 1..Len(text) |-> i]
RunStarts(text) ==
    SelectSeq(Positions(text),
              LAMBDA i : text[i] \in WhiteSpaceChars /\ (i = 1 \/ text[i - 1] \notin WhiteSpaceChars))
RunEnds(text) ==
    SelectSeq(Positions(text),
              LAMBDA i : text[i] \in WhiteSpaceChars
                         /\ (i = Len(text) \/ text[i + 1] \notin WhiteSpaceChars))

SplitWhiteSpace(text) ==
    [j \in 1..(Len(RunStarts(text)) + 1) |->
        SubSeq(text,
               IF j = 1 THEN 1 ELSE RunEnds(text)[j - 1] + 1,
               IF j = Len(RunStarts(text)) + 1 THEN Len(text) ELSE RunStarts(text)[j] - 1)]

\* .filter((token) => token.length > 1 && !stopWords.has(token))
KeepTokenMutant(token) == Len(token) > 1
KeepToken(token) == Len(token) > 1 /\ token \notin stopWords

\* toPlainText (src/src/server.ts:990-999): the text of a page is what it
\* leaves of the page's markdown.
\* the first index >= i at which pat starts in text, 0 when there is none
Least(numbers) == CHOOSE n \in numbers : \A m \in numbers : n <= m

IndexOfFrom(text, pat, i) ==
    LET found == {k \in i..(Len(text) - Len(pat) + 1) : SubSeq(text, k, k + Len(pat) - 1) = pat}
    IN IF found = {} THEN 0 ELSE Least(found)

\* the first index >= i of a character outside chars, Len(text) + 1 when none
SkipWhile(text, chars, i) ==
    LET others == {k \in i..Len(text) : text[k] \notin chars}
    IN IF i > Len(text) THEN i ELSE IF others = {} THEN Len(text) + 1 ELSE Least(others)

\* the grave accent, which a string of this notation cannot hold
BackTick == "grave"

Fence == <<BackTick, BackTick, BackTick>>

\* server.ts:992 .replace(/```[\s\S]*?```/g, " ")
RECURSIVE ReplaceFences(_, _)
ReplaceFences(text, i) ==
    IF i > Len(text) THEN <<>>
    ELSE LET close == IF IndexOfFrom(text, Fence, i) = i
                      THEN IndexOfFrom(text, Fence, i + 3) ELSE 0
         IN IF close > 0
            THEN <<" ">> \o ReplaceFences(text, close + 3)
            ELSE <<text[i]>> \o ReplaceFences(text, i + 1)

\* server.ts:993 .replace(/`[^`]*`/g, " ")
RECURSIVE ReplaceInlineCode(_, _)
ReplaceInlineCode(text, i) ==
    IF i > Len(text) THEN <<>>
    ELSE LET close == IF text[i] = BackTick THEN IndexOfFrom(text, <<BackTick>>, i + 1) ELSE 0
         IN IF close > 0
            THEN <<" ">> \o ReplaceInlineCode(text, close + 1)
            ELSE <<text[i]>> \o ReplaceInlineCode(text, i + 1)

\* server.ts:994 .replace(/#+\s+/g, " ")
RECURSIVE ReplaceHeadingMarks(_, _)
ReplaceHeadingMarks(text, i) ==
    IF i > Len(text) THEN <<>>
    ELSE LET afterMarks == IF text[i] = "#" THEN SkipWhile(text, {"#"}, i) ELSE i
             afterSpace == SkipWhile(text, WhiteSpaceChars, afterMarks)
         IN IF afterMarks > i /\ afterSpace > afterMarks
            THEN <<" ">> \o ReplaceHeadingMarks(text, afterSpace)
            ELSE <<text[i]>> \o ReplaceHeadingMarks(text, i + 1)

\* server.ts:995 .replace(/\[([^\]]+)\]\([^\)]+\)/g, "$1")
RECURSIVE ReplaceLinks(_, _)
ReplaceLinks(text, i) ==
    IF i > Len(text) THEN <<>>
    ELSE LET closeText == IF text[i] = "[" THEN IndexOfFrom(text, <<"]">>, i + 1) ELSE 0
             closeUrl == IF closeText > i + 1 /\ closeText < Len(text)
                            /\ text[closeText + 1] = "("
                         THEN IndexOfFrom(text, <<")">>, closeText + 2) ELSE 0
         IN IF closeUrl > closeText + 2
            THEN SubSeq(text, i + 1, closeText - 1) \o ReplaceLinks(text, closeUrl + 1)
            ELSE <<text[i]>> \o ReplaceLinks(text, i + 1)

\* server.ts:996 .replace(/[*_>\-]/g, " ")
ReplaceMarks(text) ==
    [i \in 1..Len(text) |-> IF text[i] \in {"*", "_", ">", "-"} THEN " " ELSE text[i]]

\* server.ts:997 .replace(/\s+/g, " ")
CollapseWhiteSpace(text, i) ==
    LET kept == SelectSeq([k \in 1..(Len(text) - i + 1) |-> k + i - 1],
                          LAMBDA k : ~(text[k] \in WhiteSpaceChars /\ k > i
                                       /\ text[k - 1] \in WhiteSpaceChars))
    IN [j \in 1..Len(kept) |-> IF text[kept[j]] \in WhiteSpaceChars THEN " " ELSE text[kept[j]]]

\* server.ts:998 .trim()
RECURSIVE TrimEnd(_)
TrimEnd(text) ==
    IF text # <<>> /\ text[Len(text)] \in WhiteSpaceChars
    THEN TrimEnd(SubSeq(text, 1, Len(text) - 1)) ELSE text

Trim(text) == TrimEnd(SubSeq(text, SkipWhile(text, WhiteSpaceChars, 1), Len(text)))

\* server.ts:990-999
PlainText(markdown) ==
    Trim(CollapseWhiteSpace(ReplaceMarks(ReplaceLinks(ReplaceHeadingMarks(
        ReplaceInlineCode(ReplaceFences(markdown, 1), 1), 1), 1)), 1))

\* The pages of the site.
MdFox == <<"#", " ", "F", "o", "x", "\n", "T", "h", "e", " ", "*", "q", "u", "i", "c", "k", "*", " ", "[", "f", "o", "x", "]", "(", "f", "o", "x", ".", "m", "d", ")", "!">>
MdDog == <<"q", "u", "i", "c", "k", " ", BackTick, "c", "o", "d", "e", " ", "d", "o", "g", BackTick, " ", "d", "o", "g">>
MdCode == <<BackTick, BackTick, BackTick, "\n", "f", "o", "x", "\n", BackTick, BackTick, BackTick, "\n", "#", "#", " ", "q", "u", "i", "c", "k", "-", "d", "o", "g">>
MdCat == <<"c", "a", "t", " ", "-", " ", "_", "c", "a", "t", "_">>
MdIntro == <<"#", " ", "I", "n", "t", "r", "o", "\n", "f", "o", "x">>
MdUsageDog == <<"#", "#", " ", "U", "s", "a", "g", "e", "\n", "d", "o", "g">>
MdUsageCat == <<"#", "#", " ", "U", "s", "a", "g", "e", "\n", "c", "a", "t">>
HtmlCat == <<"<", "p", ">", "c", "a", "t", " ", "-", " ", "<", "e", "m", ">", "c", "a", "t", "<", "/", "e", "m", ">", "<", "/", "p", ">">>

\* toPlainText, worked out once for each page
PlainTexts ==
    [markdown \in {MdFox, MdDog, MdCode, MdCat, MdIntro, MdUsageDog, MdUsageCat} |-> PlainText(markdown)] @@ <<>>

toPlainText(markdown) ==
    IF markdown \in DOMAIN PlainTexts THEN PlainTexts[markdown] ELSE PlainText(markdown)

Tokens(text) ==
    SelectSeq(SplitWhiteSpace(ReplaceNonAlnum(toLowerCase(text))), KeepToken)

\* The texts and queries handed to the index.
TextFox == <<"T", "h", "e", " ", "Q", "U", "I", "C", "K", ",", " ", "f", "o", "x", "!">>
TextDog == <<"q", "u", "i", "c", "k", " ", "q", "u", "i", "c", "k", " ", "a", " ", "d", "o", "g">>
TextMix == <<"F", "o", "x", "&", "d", "o", "g", " ", " ", "f", "o", "x">>
TextNone == <<"T", "h", "e", " ", "a", " ", "!">>

\* a page longer than a snippet: words of four letters, "fox" after 150
\* characters and 300 characters after it
Filler(count) == [i \in 1..(5 * count) |-> IF i % 5 = 0 THEN " " ELSE "z"]
TextLong == Filler(30) \o <<"f", "o", "x", " ">> \o Filler(60)

Queries ==
    { <<"q", "u", "i", "c", "k">>,
      <<"F", "O", "X", " ", "d", "o", "g">>,
      <<"t", "h", "e", " ", "a">>,
      <<"d", "o", "g", ",", " ", "d", "o", "g">> }
ProbeQueries == {<<"f", "o", "x">>, <<"Q", "u", "i", "c", "k", "!">>}
\* queries without any token: empty, stop words only, single characters
\* only, no letter or digit at all
TokenlessQueries ==
    { <<>>,
      <<" ", " ">>,
      <<"t", "h", "e", " ", "a">>,
      <<"T", "h", "e", " ", "a", "n", "d", " ", "t", "h", "e">>,
      <<"a", " ", "b", " ", "7">>,
      <<"!", "?", " ", "-", "-">> }

\* tokenize, worked out once for each of these texts
Tokenized ==
    [text \in {TextFox, TextDog, TextMix, TextNone, TextLong} \cup Queries \cup ProbeQueries
                \cup TokenlessQueries
                \cup {PlainTexts[markdown] : markdown \in DOMAIN PlainTexts} |->
        Tokens(text)] @@ <<>>

tokenize(text) == IF text \in DOMAIN Tokenized THEN Tokenized[text] ELSE Tokens(text)

Max(a, b) == IF a >= b THEN a ELSE b

RECURSIVE Gcd(_, _)
Gcd(a, b) == IF b = 0 THEN a ELSE Gcd(b, a % b)

\* A JavaScript number that is a quotient of two integers, kept exact.
Ratio(n, d) == [num |-> n \div Gcd(n, d), den |-> d \div Gcd(n, d)]
Zero == [num |-> 0, den |-> 1]

\* Map helpers: a Map is a function on the set of its keys.
Has(map, key) == key \in DOMAIN map
Put(map, key, value) ==
    [k \in DOMAIN map \cup {key} |-> IF k = key THEN value ELSE map[k]]
Delete(map, key) == [k \in DOMAIN map \ {key} |-> map[k]]
EmptyMap == [k \in {} |-> 0]

\* documents is a Map in insertion order: a sequence of documents, at most
\* one per id; set() replaces in place or appends.
DocIndex(docs, id) ==
    IF \E i \in 1..Len(docs) : docs[i].id = id
    THEN CHOOSE i \in 1..Len(docs) : docs[i].id = id
    ELSE 0
DocSet(docs, doc) ==
    IF DocIndex(docs, doc.id) = 0
    THEN Append(docs, doc)
    ELSE [docs EXCEPT ![DocIndex(docs, doc.id)] = doc]

\* The index as one record.
Index ==
    [documents |-> documents, termDocFreq |-> termDocFreq, termFreq |-> termFreq,
     docLengths |-> docLengths, avgDocLength |-> avgDocLength,
     totalDocLength |-> totalDocLength]

\* search.ts:82 the stale length leaves the running total
RemoveOldLengthMutant(total, oldLength) == total
RemoveOldLength(total, oldLength) == total - oldLength

\* search.ts:86-93 one old term leaves the document-frequency table
DecrementTermMutant(df, token) == df
DecrementTerm(df, token) ==
    LET count == IF Has(df, token) THEN df[token] ELSE 0
    IN IF count > 1 THEN Put(df, token, count - 1) ELSE Delete(df, token)

RECURSIVE DecrementTerms(_, _)
DecrementTerms(df, tokens) ==
    IF tokens = {} THEN df
    ELSE LET t == CHOOSE x \in tokens : TRUE
         IN DecrementTerms(DecrementTerm(df, t), tokens \ {t})

\* search.ts:112-115 one new term enters the document-frequency table
RECURSIVE IncrementTerms(_, _)
IncrementTerms(df, tokens) ==
    IF tokens = {} THEN df
    ELSE LET t == CHOOSE x \in tokens : TRUE
         IN IncrementTerms(Put(df, t, (IF Has(df, t) THEN df[t] ELSE 0) + 1),
                           tokens \ {t})

\* search.ts:98-101 the term-frequency map of a token list
FreqMap(tokens) ==
    [t \in Range(tokens) |-> Cardinality({i \in 1..Len(tokens) : tokens[i] = t})]

\* search.ts:76-94 the removal of the old version's contribution
RemoveOld(ix, id) ==
    LET k == DocIndex(ix.documents, id)
    IN IF k = 0 THEN ix
       ELSE LET oldTokens == tokenize(ix.documents[k].text)
                oldLength == IF Has(ix.docLengths, id) THEN ix.docLengths[id] ELSE 0
            IN [ix EXCEPT !.totalDocLength = RemoveOldLength(@, oldLength),
                          !.termDocFreq = DecrementTerms(@, Range(oldTokens))]

\* search.ts:74-116 upsert(doc)
upsert(ix, doc) ==
    LET r == RemoveOld(ix, doc.id)
        docs == DocSet(r.documents, doc)
        tokens == tokenize(doc.text)
        total == r.totalDocLength + Len(tokens)
    IN [documents |-> docs,
        termDocFreq |-> IncrementTerms(r.termDocFreq, Range(tokens)),
        termFreq |-> Put(r.termFreq, doc.id, FreqMap(tokens)),
        docLengths |-> Put(r.docLengths, doc.id, Len(tokens)),
        avgDocLength |-> IF Len(docs) > 0 THEN Ratio(total, Len(docs)) ELSE Zero,
        totalDocLength |-> total]

\* search.ts:118-125 clear()
clearMutant(ix) == [ix EXCEPT !.documents = <<>>, !.termFreq = EmptyMap, !.docLengths = EmptyMap]
clear(ix) ==
    [documents |-> <<>>, termDocFreq |-> EmptyMap, termFreq |-> EmptyMap,
     docLengths |-> EmptyMap, avgDocLength |-> Zero, totalDocLength |-> 0]

(***************************************************************************)
(* BM25.  Scores are fixed-point numbers: 1000 * ln(n) is taken from a     *)
(* table, each term of the sum is kept to 1/10000, and the final score is  *)
(* counted in tenths of that, so that the optional penalty 0.7 is exact.   *)
(***************************************************************************)
LnMilli ==
    <<0, 693, 1099, 1386, 1609, 1792, 1946, 2079, 2197, 2303, 2398, 2485, 2565, 2639, 2708, 2773, 2833, 2890, 2944, 2996, 3045, 3091, 3135, 3178, 3219, 3258, 3296, 3332, 3367, 3401, 3434, 3466>>

\* search.ts:70-72 k1 = 1.5, b = 0.75, idfSmoothing = 0.5, as quotients
K1Num == 3
K1Den == 2
BNum == 3
BDen == 4
\* search.ts:161 score *= 100; search.ts:164 score *= 0.7 (in tenths)
ScoreScale == 100
OptionalPenaltyTenths == 7
\* search.ts:127 limit = 5
DefaultLimit == 5

\* search.ts:151 ln(1 + (N - df + 0.5) / (df + 0.5)) = ln((2N + 2) / (2df + 1))
IdfMutant(totalDocs, df) == LnMilli[2 * totalDocs - 2 * df + 1] - LnMilli[2 * df + 1]
Idf(totalDocs, df) == LnMilli[2 * totalDocs + 2] - LnMilli[2 * df + 1]

\* search.ts:143 Math.max(1, this.avgDocLength)
AvgLength(avg) == IF avg.num < avg.den THEN [num |-> 1, den |-> 1] ELSE avg

\* search.ts:154 lengthNorm = 1 - b + b * (docLength / avgLength)
LengthNorm(docLength, avg) ==
    [num |-> (BDen - BNum) * avg.num + BNum * docLength * avg.den,
     den |-> BDen * avg.num]

\* search.ts:155 tfScore = tf * (k1 + 1) / (tf + k1 * lengthNorm)
TfScore(tf, norm) ==
    [num |-> tf * (K1Num + K1Den) * norm.den,
     den |-> tf * K1Den * norm.den + K1Num * norm.num]

\* search.ts:145-158 the sum over the query tokens
RECURSIVE SumTerms(_, _, _, _)
SumTerms(ix, id, tokens, totalDocs) ==
    IF tokens = <<>> THEN 0
    ELSE LET token == Head(tokens)
             freqMap == ix.termFreq[id]
             tf == IF Has(freqMap, token) THEN freqMap[token] ELSE 0
             df == IF Has(ix.termDocFreq, token) THEN ix.termDocFreq[token] ELSE 1
             docLength == IF Has(ix.docLengths, id) THEN ix.docLengths[id] ELSE 1
             ts == TfScore(tf, LengthNorm(docLength, AvgLength(ix.avgDocLength)))
             rest == SumTerms(ix, id, Tail(tokens), totalDocs)
         IN IF tf = 0 THEN rest
            ELSE ((Idf(totalDocs, df) * ts.num * 10) \div ts.den) + rest

\* search.ts:141-165 the score of one document
OptionalFactorMutant(doc) == 10
OptionalFactor(doc) == IF doc.optional THEN OptionalPenaltyTenths ELSE 10
Score(ix, doc, tokens) ==
    SumTerms(ix, doc.id, tokens, Max(Len(ix.documents), 1))
        * ScoreScale * OptionalFactor(doc)

\* search.ts:185 maxLength = 400; search.ts:196-197 the window around an
\* occurrence: 150 characters before it, 250 after
SnippetMaxLength == 400
WindowBefore == 150
WindowAfter == 250
Ellipsis == <<".", ".", ".">>

Min(a, b) == IF a <= b THEN a ELSE b

\* text.slice(start, end) for 0 <= start: the characters at start .. end - 1
SliceText(text, start, end) == SubSeq(text, start + 1, Min(end, Len(text)))

\* window.includes(t)
Contains(text, pat) == IndexOfFrom(text, pat, 1) # 0

\* search.ts:189-210 the positions idx at which lower.indexOf(token, idx)
\* finds the token, idx going on from each find by one
RECURSIVE Occurrences(_, _, _)
Occurrences(lower, token, idx) ==
    LET at == IndexOfFrom(lower, token, idx + 1)
    IN IF at = 0 THEN <<>> ELSE <<at - 1>> \o Occurrences(lower, token, at)

\* search.ts:193-200 the tokens that the window around idx holds
MatchCount(lower, tokens, idx) ==
    LET window == SliceText(lower, Max(0, idx - WindowBefore), Min(Len(lower), idx + WindowAfter))
    IN Cardinality({k \in 1..Len(tokens) : Contains(window, tokens[k])})

\* search.ts:202-205 the first position with the highest count so far wins
RECURSIVE BestAmong(_, _, _, _)
BestAmong(best, lower, tokens, positions) ==
    IF positions = <<>> THEN best
    ELSE LET matchCount == MatchCount(lower, tokens, Head(positions))
         IN BestAmong(IF matchCount > best.bestMatchCount
                      THEN [bestIndex |-> Head(positions), bestMatchCount |-> matchCount]
                      ELSE best,
                      lower, tokens, Tail(positions))

RECURSIVE BestMatch(_, _, _, _)
BestMatch(best, lower, tokens, rest) ==
    IF rest = <<>> THEN best
    ELSE BestMatch(BestAmong(best, lower, tokens, Occurrences(lower, Head(rest), 0)),
                   lower, tokens, Tail(rest))

\* search.ts:185-231 snippetFor(text, tokens)
Snippet(text, tokens) ==
    LET lower == toLowerCase(text)
        best == BestMatch([bestIndex |-> -1, bestMatchCount |-> 0], lower, tokens, tokens)
        contextBefore == (SnippetMaxLength * 35) \div 100
        contextAfter == SnippetMaxLength - contextBefore
        start == Max(0, best.bestIndex - contextBefore)
        end == Min(Len(text), best.bestIndex + contextAfter)
        snippet == Trim(CollapseWhiteSpace(SliceText(text, start, end), 1))
    IN IF best.bestIndex < 0 THEN Trim(SliceText(text, 0, SnippetMaxLength))
       ELSE (IF start > 0 THEN Ellipsis ELSE <<>>) \o snippet
                \o (IF end < Len(text) THEN Ellipsis ELSE <<>>)

\* snippetFor, worked out once for each text and each query of the model
Snippets ==
    [pair \in {TextFox, TextDog, TextMix, TextNone, TextLong}
                 \X {Tokenized[query] : query \in Queries \cup ProbeQueries} |->
        Snippet(pair[1], pair[2])] @@ <<>>

snippetFor(text, tokens) ==
    IF <<text, tokens>> \in DOMAIN Snippets THEN Snippets[<<text, tokens>>]
    ELSE Snippet(text, tokens)

\* search.ts:135 the section filter
PassesSection(doc, section) ==
    ~(section # <<>> /\ toLowerCase(doc.section) # toLowerCase(section))

\* search.ts:134-177 the scored candidates, in iteration order
RECURSIVE Candidates(_, _, _, _)
Candidates(ix, k, tokens, section) ==
    IF k > Len(ix.documents) THEN <<>>
    ELSE LET doc == ix.documents[k]
             rest == Candidates(ix, k + 1, tokens, section)
         IN IF ~PassesSection(doc, section) \/ ~Has(ix.termFreq, doc.id)
            THEN rest
            ELSE LET score == Score(ix, doc, tokens)
                 IN IF score > 0
                    THEN <<[id |-> doc.id, url |-> doc.url, title |-> doc.title,
                            section |-> doc.section, score |-> score,
                            snippet |-> snippetFor(doc.text, tokens)]>> \o rest
                    ELSE rest

\* search.ts:180 sort((a, b) => b.score - a.score): stable, descending
SortByScoreMutant(rs) == rs
RECURSIVE InsertByScore(_, _)
InsertByScore(sorted, r) ==
    IF sorted = <<>> THEN <<r>>
    ELSE IF Head(sorted).score >= r.score
         THEN <<Head(sorted)>> \o InsertByScore(Tail(sorted), r)
         ELSE <<r>> \o sorted

RECURSIVE SortByScore(_)
SortByScore(rs) ==
    IF rs = <<>> THEN <<>>
    ELSE InsertByScore(SortByScore(SubSeq(rs, 1, Len(rs) - 1)), rs[Len(rs)])

\* search.ts:181 slice(0, limit)
Slice(rs, limit) ==
    LET end == IF limit < 0 THEN Max(Len(rs) + limit, 0)
               ELSE IF limit > Len(rs) THEN Len(rs) ELSE limit
    IN SubSeq(rs, 1, end)

\* search.ts:127-182 search(query, limit, section)
search(ix, query, limit, section) ==
    LET tokens == tokenize(query)
    IN IF Len(tokens) = 0 THEN <<>>
       ELSE Slice(SortByScore(Candidates(ix, 1, tokens, section)), limit)

(***************************************************************************)
(* Documents and queries handed to the index.                              *)
(***************************************************************************)
SectionGuide == <<"G", "u", "i", "d", "e">>
SectionApi == <<"A", "P", "I">>

DocIds == {"d1", "d2"}

DocVersion(id, v) ==
    CASE v = 1 -> [id |-> id, url |-> <<id, "v1">>, title |-> "Fox", section |-> SectionGuide,
                   optional |-> FALSE, text |-> TextFox]
      [] v = 2 -> [id |-> id, url |-> <<id, "v2">>, title |-> "Dog", section |-> SectionApi,
                   optional |-> FALSE, text |-> TextDog]
      [] v = 3 -> [id |-> id, url |-> <<id, "v3">>, title |-> "Mix", section |-> SectionGuide,
                   optional |-> TRUE, text |-> TextMix]
      [] OTHER -> [id |-> id, url |-> <<id, "v4">>, title |-> "None", section |-> SectionApi,
                   optional |-> FALSE, text |-> TextNone]

SearchDocuments == {DocVersion(id, v) : id \in DocIds, v \in 1..4}

Limits == {1, DefaultLimit}
SectionFilters == {<<>>, <<"g", "u", "i", "d", "e">>, <<"A", "p", "i">>}

NoUpsert == [old |-> <<>>, new |-> <<>>]
NoClear == [called |-> FALSE, dropped |-> FALSE]
NoSearch == [query |-> <<>>, limit |-> 0, section |-> <<>>, results |-> <<>>, called |-> FALSE]

CommitIndex(ix) ==
    /\ documents' = ix.documents
    /\ termDocFreq' = ix.termDocFreq
    /\ termFreq' = ix.termFreq
    /\ docLengths' = ix.docLengths
    /\ avgDocLength' = ix.avgDocLength
    /\ totalDocLength' = ix.totalDocLength

\* search.ts:62-67 a new SearchIndex
IndexInit ==
    /\ documents = <<>>
    /\ termDocFreq = EmptyMap
    /\ termFreq = EmptyMap
    /\ docLengths = EmptyMap
    /\ avgDocLength = Zero
    /\ totalDocLength = 0
    /\ lastUpsert = NoUpsert
    /\ lastSearch = NoSearch
    /\ lastClear = NoClear

Upsert ==
    /\ \E doc \in SearchDocuments :
          /\ CommitIndex(upsert(Index, doc))
          /\ lastUpsert' =
                [old |-> IF DocIndex(documents, doc.id) = 0 THEN <<>>
                         ELSE <<documents[DocIndex(documents, doc.id)]>>,
                 new |-> <<doc>>]
    /\ lastSearch' = NoSearch
    /\ UNCHANGED <<lastClear, crawlVars, cacheVars, serviceVars, workerVars>>

Clear ==
    /\ CommitIndex(clear(Index))
    /\ lastUpsert' = NoUpsert
    /\ lastSearch' = NoSearch
    /\ lastClear' = [called |-> TRUE, dropped |-> (documents # <<>>)]
    /\ UNCHANGED <<crawlVars, cacheVars, serviceVars, workerVars>>

Search ==
    /\ \E query \in Queries, limit \in Limits, section \in SectionFilters :
          lastSearch' = [query |-> query, limit |-> limit, section |-> section,
                         results |-> search(Index, query, limit, section),
                         called |-> TRUE]
    /\ UNCHANGED <<documents, termDocFreq, termFreq, docLengths, avgDocLength,
                   totalDocLength, lastUpsert, lastClear>>
    /\ UNCHANGED <<crawlVars, cacheVars, serviceVars, workerVars>>

IndexNext == Upsert \/ Clear \/ Search

\* No crawl: the DeepCrawler fields stay as constructed.
CrawlIdle ==
    /\ options = [maxDepth |-> 0, maxWorkers |-> 1, maxDocuments |-> 0]
    /\ crawledUrls = {}
    /\ pendingTasks = <<>>
    /\ activeWorkers = 0
    /\ results = <<>>
    /\ activePromises = {}
    /\ workers = <<>>
    /\ initialUrls = <<>>
    /\ pc = "new"

(***************************************************************************)
(* CacheManager (src/src/indexing/cache.ts:16-75).  The cache directory    *)
(* maps each URL's file name to a file; fetch() runs in the steps its      *)
(* awaits cut it into, so calls of several callers interleave.             *)
(***************************************************************************)
\* A text is the sequence of the chunks in which writeFile writes it (a body
\* of two chunks is one longer than the chunk size of writeFile).
Empty == <<>>
Hello == <<"hel", "lo">>
World == <<"wor", "ld">>
NotFound == <<"Not found">>

Null == "null"
Undefined == "undefined"
NoEntry == [null |-> TRUE]             \* null where an entry or a response may stand
NoFile == [file |-> "absent"]
Garbage == [file |-> "garbage"]        \* a file JSON.parse rejects (truncated or foreign)

EntryKeys ==
    {"url", "fetchedAt", "status", "ok", "contentType", "etag", "lastModified", "content"}

\* the members that can be undefined (cache.ts:10-12, 57)
OptionalKeys == {"contentType", "etag", "lastModified"}

\* JSON.stringify(entry, null, 2): members whose value is undefined are left out
StringifyMutant(entry) == [k \in {"url", "status", "ok", "content"} |-> entry[k]]
Stringify(entry) ==
    [k \in {x \in EntryKeys : ~(x \in OptionalKeys /\ entry[x] = Undefined)} |-> entry[k]]

\* JSON.parse(data) as CacheEntry: a member the text lacks reads as undefined
Parse(data) == [k \in EntryKeys |-> IF k \in DOMAIN data THEN data[k] ELSE Undefined]

\* cache.ts:19-25 the file of a URL: one name per URL
filePath(url) == <<"sha256", url>>

\* cache.ts:27-34 get(url): null for a missing or unparsable file
getMutant(dir, url) == IF dir[filePath(url)] = NoFile THEN NoEntry ELSE Parse(dir[filePath(url)])
get(dir, url) ==
    LET data == dir[filePath(url)]
    IN IF data = NoFile \/ data = Garbage THEN NoEntry ELSE Parse(data)

\* cache.ts:44-46 the revalidation headers
TruthyMutant(v) == v # Null /\ v # Undefined
Truthy(v) == v # Null /\ v # Undefined /\ v # ""
Headers(cached) ==
    LET names == (IF cached # NoEntry /\ Truthy(cached.etag) THEN {"If-None-Match"} ELSE {})
                 \cup (IF cached # NoEntry /\ Truthy(cached.lastModified)
                       THEN {"If-Modified-Since"} ELSE {})
    IN [name \in names |->
            IF name = "If-None-Match" THEN cached.etag ELSE cached.lastModified]

\* cache.ts:53 the not-modified test
NotModifiedMutant(response, cached) == FALSE
NotModified(response, cached) == response.status = 304 /\ cached # NoEntry

\* cache.ts:57-68 the entry built from a response and its body
NewEntry(url, now, response, text) ==
    [url |-> url, fetchedAt |-> now, status |-> response.status, ok |-> response.ok,
     contentType |-> IF response.contentType = Null THEN Undefined ELSE response.contentType,
     etag |-> response.etag, lastModified |-> response.lastModified, content |-> text]

\* cache.ts:51-73 a fault of an awaited step: there is no catch clause, the
\* finally clause clears the timer and the call rejects with the fault
OnFaultMutant(call, kind) ==
    [call EXCEPT !.pc = "returned", !.error = kind,
                 !.result = [url |-> call.url, fetchedAt |-> 0, status |-> 408,
                             ok |-> FALSE, contentType |-> Undefined, etag |-> Null,
                             lastModified |-> Null, content |-> Empty]]
OnFaultCachedMutant(call, kind) ==
    [call EXCEPT !.pc = "returned", !.error = kind, !.result = call.cached]
OnFault(call, kind) == [call EXCEPT !.pc = "rejected", !.error = kind]

(***************************************************************************)
(* The remote site: the responses a request can get.                       *)
(***************************************************************************)
Response(code, contentType, etag, lastModified, body) ==
    [status |-> code, ok |-> (code >= 200 /\ code <= 299),
     contentType |-> contentType, etag |-> etag, lastModified |-> lastModified,
     body |-> body]

Responses ==
    { Response(200, "text/plain", "a1", Null, Hello),
      Response(200, Null, Null, "lm1", World),
      Response(304, Null, Null, Null, Empty),
      Response(404, "text/plain", "", "lm404", NotFound) }

CacheUrls == {"u1", "u2"}
Callers == {1, 2}
MaxFetches == 2

\* An entry written by an earlier run of the program.
OldEntry(url) ==
    [url |-> url, fetchedAt |-> 0, status |-> 200, ok |-> TRUE,
     contentType |-> Undefined, etag |-> "a1", lastModified |-> Null,
     content |-> Hello]

IdleCall ==
    [pc |-> "idle", url |-> Null, seen |-> NoFile, cached |-> NoEntry,
     headers |-> Headers(NoEntry), response |-> NoEntry, entry |-> NoEntry,
     result |-> NoEntry, error |-> Null, wrote |-> FALSE, interfered |-> FALSE,
     overlapped |-> {}]

CacheInit ==
    /\ files \in [{filePath(u) : u \in CacheUrls} -> {NoFile}]
                 \cup { [p \in {filePath(u) : u \in CacheUrls} |->
                            IF p = filePath("u1") THEN f ELSE NoFile]
                        : f \in {Garbage, Stringify(OldEntry("u1"))} }
    /\ calls = [c \in Callers |-> IdleCall]
    /\ clock = 0
    /\ persisted = {get(files, u) : u \in CacheUrls} \ {NoEntry}

\* Callers are interchangeable: a new call is made by the first idle one.
Free(c) == calls[c].pc = "idle" /\ \A d \in Callers : calls[d].pc = "idle" => c <= d

\* cache.ts:27-34 a call of get(url) on its own: the file is read and parsed
GetCall(c) ==
    /\ Free(c)
    /\ clock < MaxFetches
    /\ \E url \in CacheUrls :
          calls' = [calls EXCEPT ![c] =
                      [IdleCall EXCEPT !.pc = "got",
                                       !.url = url,
                                       !.seen = files[filePath(url)],
                                       !.result = get(files, url)]]
    /\ clock' = clock + 1
    /\ UNCHANGED <<files, persisted, crawlVars, indexVars, serviceVars, workerVars>>

\* cache.ts:42-52 fetch(url) up to the request: the cache record is read,
\* the headers are set, the timer is armed and the request is sent
FetchCall(c) ==
    /\ Free(c)
    /\ clock < MaxFetches
    /\ \E url \in CacheUrls :
          calls' = [calls EXCEPT ![c] =
                      [IdleCall EXCEPT !.pc = "request",
                                       !.url = url,
                                       !.seen = files[filePath(url)],
                                       !.cached = get(files, url),
                                       !.headers = Headers(get(files, url))]]
    /\ clock' = clock + 1
    /\ UNCHANGED <<files, persisted, crawlVars, indexVars, serviceVars, workerVars>>

\* cache.ts:52-57 the response arrives
ResponseArrives(c) ==
    /\ calls[c].pc = "request"
    /\ \E response \in Responses :
          calls' = [calls EXCEPT ![c] =
                      IF NotModified(response, calls[c].cached)
                      THEN [@ EXCEPT !.pc = "returned", !.response = response,
                                     !.result = calls[c].cached]
                      ELSE [@ EXCEPT !.pc = "text", !.response = response]]
    /\ UNCHANGED <<files, clock, persisted, crawlVars, indexVars, serviceVars, workerVars>>

\* cache.ts:52 the request fails, or the timer aborts it first
RequestFails(c) ==
    /\ calls[c].pc = "request"
    /\ \E kind \in {"timeout", "network"} :
          calls' = [calls EXCEPT ![c] = OnFault(@, kind)]
    /\ UNCHANGED <<files, clock, persisted, crawlVars, indexVars, serviceVars, workerVars>>

\* The calls other than c that are writing the file of c's URL.
Writing(c) ==
    {d \in Callers \ {c} : calls[d].pc \in {"set", "wset"} /\ calls[d].url = calls[c].url}

\* cache.ts:39 what a completed writeFile leaves: the text written, unless
\* another writeFile of the same file ran at the same time; the two then
\* truncate and write the same file from offset 0 with nothing ordering them,
\* and when this one completes the file ends with its last chunk: it holds
\* its text, or its text followed by the rest of a longer one, which does not
\* parse, or, the text being written in chunks with an await between them,
\* the other writer's first chunk followed by its own later chunks
\* the text whose first chunk (the members before content and the start of
\* content) is that of head and whose later chunks are those of tail
Spliced(head, tail) == [head EXCEPT !.content = <<head.content[1]>> \o Tail(tail.content)]

WrittenMutant(call) == {Stringify(call.entry)}
Written(call) ==
    {Stringify(call.entry)}
    \cup (IF call.overlapped # {} THEN {Garbage} ELSE {})
    \cup {Stringify(Spliced(other, call.entry)) :
             other \in {o \in call.overlapped : Len(o.content) >= 2 /\ Len(call.entry.content) >= 2}}

\* cache.ts:58-69 the body has been read: the entry is built and set() starts
\* writing the file (writeFile truncates it first)
BodyRead(c) ==
    /\ calls[c].pc = "text"
    /\ LET entry == NewEntry(calls[c].url, clock, calls[c].response, calls[c].response.body)
       IN /\ calls' = [d \in Callers |->
                         IF d = c
                         THEN [calls[c] EXCEPT !.pc = "set", !.entry = entry, !.wrote = TRUE,
                                               !.overlapped = {calls[w].entry : w \in Writing(c)},
                                               !.interfered = (@ \/ Writing(c) # {})]
                         ELSE IF d \in Writing(c)
                              THEN [calls[d] EXCEPT !.interfered = TRUE,
                                                    !.overlapped = @ \cup {entry}]
                              ELSE IF calls[d].pc # "idle" /\ calls[d].url = calls[c].url
                                   THEN [calls[d] EXCEPT !.interfered = TRUE]
                                   ELSE calls[d]]
          /\ files' = [files EXCEPT ![filePath(calls[c].url)] = Garbage]
    /\ persisted' = persisted \cup {NewEntry(calls[c].url, clock, calls[c].response, calls[c].response.body)}
    /\ UNCHANGED <<clock, crawlVars, indexVars, serviceVars, workerVars>>

\* cache.ts:58 reading the body fails, or the timer aborts it
BodyFails(c) ==
    /\ calls[c].pc = "text"
    /\ \E kind \in {"timeout", "body"} :
          calls' = [calls EXCEPT ![c] = OnFault(@, kind)]
    /\ UNCHANGED <<files, clock, persisted, crawlVars, indexVars, serviceVars, workerVars>>

\* cache.ts:36-40, 69-70 writeFile completes, fetch returns the entry
SetDone(c) ==
    /\ calls[c].pc = "set"
    /\ \E text \in Written(calls[c]) :
          files' = [files EXCEPT ![filePath(calls[c].url)] = text]
    /\ calls' = [d \in Callers |->
                   IF d = c
                   THEN [calls[c] EXCEPT !.pc = "returned", !.result = calls[c].entry]
                   ELSE IF calls[d].pc # "idle" /\ calls[d].url = calls[c].url
                        THEN [calls[d] EXCEPT !.interfered = TRUE]
                        ELSE calls[d]]
    /\ UNCHANGED <<clock, persisted, crawlVars, indexVars, serviceVars, workerVars>>

\* cache.ts:37-39 mkdir or writeFile fails
SetFails(c) ==
    /\ calls[c].pc = "set"
    /\ calls' = [calls EXCEPT ![c] = OnFault(@, "write")]
    /\ UNCHANGED <<files, clock, persisted, crawlVars, indexVars, serviceVars, workerVars>>

\* The caller has taken the outcome; it may call again.
CallOver(c) ==
    /\ calls[c].pc \in {"returned", "rejected", "got", "crawled"}
    /\ calls' = [calls EXCEPT ![c] = IdleCall]
    /\ UNCHANGED <<files, clock, persisted, crawlVars, indexVars, serviceVars, workerVars>>

CacheNext ==
    \/ \E c \in Callers : GetCall(c)
    \/ \E c \in Callers : FetchCall(c)
    \/ \E c \in Callers : ResponseArrives(c)
    \/ \E c \in Callers : RequestFails(c)
    \/ \E c \in Callers : BodyRead(c)
    \/ \E c \in Callers : BodyFails(c)
    \/ \E c \in Callers : SetDone(c)
    \/ \E c \in Callers : SetFails(c)
    \/ \E c \in Callers : CallOver(c)

(***************************************************************************)
(* The crawl worker's fetch (src/src/indexing/crawler-worker.ts:51-145).   *)
(* It reads and writes the files of the same cache directory as            *)
(* CacheManager, under the same names (crawler-worker.ts:43-49).           *)
(***************************************************************************)
\* crawler-worker.ts:99 what fetchContent resolves to
WorkerResult(content, contentType, ok, code) ==
    [content |-> content, contentType |-> contentType, ok |-> ok, status |-> code]

\* crawler-worker.ts:141-143 the outer catch: a failure without a status
WorkerFailure == WorkerResult(Empty, Undefined, FALSE, Undefined)

\* crawler-worker.ts:51-58 getCached: null for a missing or unparsable file
getCached(dir, url) ==
    LET data == dir[filePath(url)]
    IN IF data = NoFile \/ data = Garbage THEN NoEntry ELSE Parse(data)

\* crawler-worker.ts:120-131 the entry built from a successful response
WorkerEntry(url, now, response, text) ==
    [url |-> url, fetchedAt |-> now, status |-> response.status, ok |-> response.ok,
     contentType |-> IF Truthy(response.contentType) THEN response.contentType ELSE Undefined,
     etag |-> response.etag, lastModified |-> response.lastModified, content |-> text]

\* crawler-worker.ts:111-118 the response is looked at: the cached content is
\* returned for a 304, a failure for a response that is not ok, and the body
\* is read otherwise
Answered(call, response) ==
    IF response.status = 304 /\ call.cached # NoEntry
    THEN [call EXCEPT !.pc = "crawled", !.response = response,
                      !.result = WorkerResult(call.cached.content, call.cached.contentType,
                                              TRUE, Undefined)]
    ELSE IF ~response.ok
         THEN [call EXCEPT !.pc = "crawled", !.response = response,
                           !.result = WorkerResult(Empty, Undefined, FALSE, response.status)]
         ELSE [call EXCEPT !.pc = "wtext", !.response = response]

\* crawler-worker.ts:101-111 fetchContent up to the request: the cache file
\* is read, the headers are set, the timer is armed and the request is sent
WorkerFetchCall(c) ==
    /\ Free(c)
    /\ clock < MaxFetches
    /\ \E url \in CacheUrls :
          calls' = [calls EXCEPT ![c] =
                      [IdleCall EXCEPT !.pc = "wrequest",
                                       !.url = url,
                                       !.seen = files[filePath(url)],
                                       !.cached = getCached(files, url),
                                       !.headers = Headers(getCached(files, url))]]
    /\ clock' = clock + 1
    /\ UNCHANGED <<files, persisted, crawlVars, indexVars, serviceVars, workerVars>>

\* crawler-worker.ts:111-118 the response arrives
WorkerResponseArrives(c) ==
    /\ calls[c].pc = "wrequest"
    /\ \E response \in Responses :
          calls' = [calls EXCEPT ![c] = Answered(@, response)]
    /\ UNCHANGED <<files, clock, persisted, crawlVars, indexVars, serviceVars, workerVars>>

\* crawler-worker.ts:111, 141-143 the request fails, or the timer aborts it
WorkerRequestFails(c) ==
    /\ calls[c].pc = "wrequest"
    /\ \E kind \in {"timeout", "network"} :
          calls' = [calls EXCEPT ![c] =
                      [@ EXCEPT !.pc = "crawled", !.error = kind, !.result = WorkerFailure]]
    /\ UNCHANGED <<files, clock, persisted, crawlVars, indexVars, serviceVars, workerVars>>

\* crawler-worker.ts:120-133, 60-63 the body has been read: the entry is built
\* and setCached starts writing the file (writeFile truncates it first)
WorkerBodyRead(c) ==
    /\ calls[c].pc = "wtext"
    /\ LET entry == WorkerEntry(calls[c].url, clock, calls[c].response, calls[c].response.body)
       IN /\ calls' = [d \in Callers |->
                         IF d = c
                         THEN [calls[c] EXCEPT !.pc = "wset", !.entry = entry, !.wrote = TRUE,
                                               !.overlapped = {calls[w].entry : w \in Writing(c)},
                                               !.interfered = (@ \/ Writing(c) # {})]
                         ELSE IF d \in Writing(c)
                              THEN [calls[d] EXCEPT !.interfered = TRUE,
                                                    !.overlapped = @ \cup {entry}]
                              ELSE IF calls[d].pc # "idle" /\ calls[d].url = calls[c].url
                                   THEN [calls[d] EXCEPT !.interfered = TRUE]
                                   ELSE calls[d]]
          /\ files' = [files EXCEPT ![filePath(calls[c].url)] = Garbage]
          /\ persisted' = persisted \cup {entry}
    /\ UNCHANGED <<clock, crawlVars, indexVars, serviceVars, workerVars>>

\* crawler-worker.ts:120, 141-143 reading the body fails, or the timer aborts it
WorkerBodyFails(c) ==
    /\ calls[c].pc = "wtext"
    /\ \E kind \in {"timeout", "body"} :
          calls' = [calls EXCEPT ![c] =
                      [@ EXCEPT !.pc = "crawled", !.error = kind, !.result = WorkerFailure]]
    /\ UNCHANGED <<files, clock, persisted, crawlVars, indexVars, serviceVars, workerVars>>

\* crawler-worker.ts:133-135 writeFile completes, fetchContent returns the body
WorkerSetDone(c) ==
    /\ calls[c].pc = "wset"
    /\ \E text \in Written(calls[c]) :
          files' = [files EXCEPT ![filePath(calls[c].url)] = text]
    /\ calls' = [d \in Callers |->
                   IF d = c
                   THEN [calls[c] EXCEPT !.pc = "crawled",
                                         !.result = WorkerResult(calls[c].entry.content,
                                                                 calls[c].entry.contentType,
                                                                 TRUE, Undefined)]
                   ELSE IF calls[d].pc # "idle" /\ calls[d].url = calls[c].url
                        THEN [calls[d] EXCEPT !.interfered = TRUE]
                        ELSE calls[d]]
    /\ UNCHANGED <<clock, persisted, crawlVars, indexVars, serviceVars, workerVars>>

\* crawler-worker.ts:60-67, 135 mkdir or writeFile fails: setCached ignores
\* the error and fetchContent returns the body
WorkerSetFails(c) ==
    /\ calls[c].pc = "wset"
    /\ calls' = [calls EXCEPT ![c] =
                   [@ EXCEPT !.pc = "crawled", !.error = "write",
                             !.result = WorkerResult(calls[c].entry.content,
                                                     calls[c].entry.contentType,
                                                     TRUE, Undefined)]]
    /\ UNCHANGED <<files, clock, persisted, crawlVars, indexVars, serviceVars, workerVars>>

\* The service's CacheManager and the crawl workers at work in one directory.
WorkerFetchNext ==
    \/ \E c \in Callers : FetchCall(c)
    \/ \E c \in Callers : ResponseArrives(c)
    \/ \E c \in Callers : RequestFails(c)
    \/ \E c \in Callers : BodyRead(c)
    \/ \E c \in Callers : BodyFails(c)
    \/ \E c \in Callers : SetDone(c)
    \/ \E c \in Callers : SetFails(c)
    \/ \E c \in Callers : WorkerFetchCall(c)
    \/ \E c \in Callers : WorkerResponseArrives(c)
    \/ \E c \in Callers : WorkerRequestFails(c)
    \/ \E c \in Callers : WorkerBodyRead(c)
    \/ \E c \in Callers : WorkerBodyFails(c)
    \/ \E c \in Callers : WorkerSetDone(c)
    \/ \E c \in Callers : WorkerSetFails(c)
    \/ \E c \in Callers : CallOver(c)

\* No cache traffic.
CacheIdle ==
    /\ files = [p \in {filePath(u) : u \in CacheUrls} |-> NoFile]
    /\ calls = [c \in Callers |-> IdleCall]
    /\ clock = 0
    /\ persisted = {}

(***************************************************************************)
(* IndexingService (src/src/server.ts:596-1000).  A manifest is the        *)
(* sequence of its lines, each given by the pattern of parseLlmsTxt that   *)
(* it matches; a URL is the sequence of its lexical pieces.                *)
(***************************************************************************)
H1(text) == [kind |-> "h1", text |-> text]
Quote(text) == [kind |-> "quote", text |-> text]
H2(text) == [kind |-> "h2", text |-> text]
LinkLine(title, url) == [kind |-> "link", title |-> title, url |-> url]
Prose == [kind |-> "prose"]

SectionGeneral == <<"G", "e", "n", "e", "r", "a", "l">>
SectionOptional == <<"O", "p", "t", "i", "o", "n", "a", "l">>
SectionIntro == <<"I", "n", "t", "r", "o">>
SectionUsage == <<"U", "s", "a", "g", "e">>

\* cache.ts:103-137 the loop of parseLlmsTxt
RECURSIVE ParseLines(_, _)
ParseLines(lines, st) ==
    IF lines = <<>> THEN st
    ELSE LET line == Head(lines)
             next ==
                 IF line.kind = "h1" /\ st.title = ""
                 THEN [st EXCEPT !.title = line.text]
                 ELSE IF line.kind = "quote" /\ st.summary = Undefined
                 THEN [st EXCEPT !.summary = line.text]
                 ELSE IF line.kind = "h2"
                 THEN [st EXCEPT !.section = line.text,
                                 !.optional = (toLowerCase(line.text) = toLowerCase(SectionOptional))]
                 ELSE IF line.kind = "link"
                 THEN [st EXCEPT !.links = Append(@, [title |-> line.title, url |-> line.url,
                                                      section |-> st.section,
                                                      optional |-> st.optional])]
                 ELSE st
         IN ParseLines(Tail(lines), next)

MissingTitle == "llms.txt is missing required H1 title (# ...)"

\* cache.ts:93-149 parseLlmsTxt: the parsed manifest, or the error thrown
parseLlmsTxt(lines) ==
    LET st == ParseLines(lines, [title |-> "", summary |-> Undefined,
                                 section |-> SectionGeneral, optional |-> FALSE,
                                 links |-> <<>>])
    IN IF st.title = ""
       THEN [throws |-> TRUE, message |-> MissingTitle]
       ELSE [throws |-> FALSE, title |-> st.title, summary |-> st.summary, links |-> st.links]

(***************************************************************************)
(* The remote site.                                                        *)
(***************************************************************************)
LlmsUrl == <<"https://site", "/llms.txt">>
UrlHtmlMd == Append(UrlHtml, ".md")

ManifestDocs ==
    <<H1("Site"), Quote("All docs"), H2(SectionGuide), LinkLine("Fox", UrlA), Prose,
      LinkLine("Cat", UrlHtml), H1("Again"), H2(SectionOptional), LinkLine("Dog", UrlC)>>
ManifestSmall == <<H1("Site v2"), LinkLine("Cat", UrlHtml)>>
ManifestNoTitle == <<Quote("No title"), H2(SectionGuide), LinkLine("Fox", UrlA)>>
Manifests == {ManifestDocs, ManifestSmall, ManifestNoTitle}

Markdown == <<"text/markdown">>
Html == <<"text/html", "; charset=utf-8">>
Plain == <<"text/plain">>

\* contentType?.includes(piece)
Includes(contentType, piece) == \E i \in 1..Len(contentType) : contentType[i] = piece

\* what the site serves at a page URL
PageOf(url) ==
    CASE url = UrlA -> [content |-> MdFox, contentType |-> Markdown]
      [] url = UrlC -> [content |-> MdDog, contentType |-> Plain]
      [] url = UrlHtml -> [content |-> HtmlCat, contentType |-> Html]
      [] url = UrlHtmlMd -> [content |-> MdCat, contentType |-> Markdown]
      [] OTHER -> [content |-> MdDog, contentType |-> Markdown]

OkEntry(url, content, contentType) ==
    [url |-> url, status |-> 200, ok |-> TRUE, content |-> content, contentType |-> contentType]
NotOkEntry(url) ==
    [url |-> url, status |-> 404, ok |-> FALSE, content |-> <<>>, contentType |-> Plain]

\* CacheManager.fetch as the service sees it: an entry, ok or not, or a rejection
Returns(entry) == [rejects |-> FALSE, entry |-> entry]
Rejects(message) == [rejects |-> TRUE, message |-> message]
NetworkError == "fetch failed"

PageFetches(url) ==
    { Returns(OkEntry(url, PageOf(url).content, PageOf(url).contentType)),
      Returns(NotOkEntry(url)),
      Rejects(NetworkError) }

ManifestFetches ==
    {Returns(OkEntry(LlmsUrl, manifest, Plain)) : manifest \in Manifests}
    \cup {Returns(NotOkEntry(LlmsUrl)), Rejects(NetworkError)}

\* turndown.turndown(html): the markdown the library makes of a page
Turndown(html) == IF html = HtmlCat THEN MdCat ELSE html

(***************************************************************************)
(* The llms-full worker (src/unnamed/part_002): chunkMarkdown, computed    *)
(* on the characters of the document.                                      *)
(***************************************************************************)
MaxLines == 3

NewLine == "\n"

\* markdown.split(/\r?\n/)
RECURSIVE SplitLines(_, _)
SplitLines(text, line) ==
    IF text = <<>> THEN <<line>>
    ELSE IF Head(text) = NewLine THEN <<line>> \o SplitLines(Tail(text), <<>>)
    ELSE IF Head(text) = "\r" /\ Len(text) >= 2 /\ text[2] = NewLine
         THEN <<line>> \o SplitLines(Tail(Tail(text)), <<>>)
    ELSE SplitLines(Tail(text), Append(line, Head(text)))

\* lines.join("\n")
RECURSIVE JoinWith(_, _)
JoinWith(parts, sep) ==
    IF parts = <<>> THEN <<>>
    ELSE IF Len(parts) = 1 THEN parts[1]
    ELSE parts[1] \o sep \o JoinWith(Tail(parts), sep)

\* part_002:24 headingRegex = /^(#{1,6})\s+(.*)$/: the number of marks that
\* open the line, and what follows the white space after them
Marks(line) == SkipWhile(line, {"#"}, 1) - 1
AfterMarks(line) == SubSeq(line, SkipWhile(line, WhiteSpaceChars, Marks(line) + 1), Len(line))
IsHeading(line) ==
    /\ Marks(line) \in 1..6
    /\ Marks(line) < Len(line)
    /\ line[Marks(line) + 1] \in WhiteSpaceChars
    /\ \A i \in 1..Len(AfterMarks(line)) : AfterMarks(line)[i] \notin {NewLine, "\r"}

Untitled == <<"U", "n", "t", "i", "t", "l", "e", "d", " ", "S", "e", "c", "t", "i", "o", "n">>
PreambleTitle == <<"P", "r", "e", "a", "m", "b", "l", "e">>
Separator == <<" ", ">", " ">>

\* part_002:80-81 level and heading of a heading line
LevelOf(line) == Marks(line)
HeadingOf(line) == IF Trim(AfterMarks(line)) = <<>> THEN Untitled ELSE Trim(AfterMarks(line))

\* part_002:82-84 pop every entry whose level is >= the new level
RECURSIVE PopStackMutant(_, _)
PopStackMutant(headingStack, level) ==
    IF headingStack # <<>> /\ headingStack[Len(headingStack)].level > level
    THEN PopStackMutant(SubSeq(headingStack, 1, Len(headingStack) - 1), level)
    ELSE headingStack
RECURSIVE PopStack(_, _)
PopStack(headingStack, level) ==
    IF headingStack # <<>> /\ headingStack[Len(headingStack)].level >= level
    THEN PopStack(SubSeq(headingStack, 1, Len(headingStack) - 1), level)
    ELSE headingStack

\* part_002:86 headingStack.map((entry) => entry.title).join(" > ")
Breadcrumb(headingStack) ==
    JoinWith([i \in 1..Len(headingStack) |-> headingStack[i].title], Separator)

\* part_002:43-56 pushChunk; current is <<>> for null, else the one chunk under way
pushChunk(st) ==
    IF st.current = <<>> THEN st
    ELSE LET chunk == st.current[1]
             content == Trim(JoinWith(chunk.lines, <<NewLine>>))
         IN IF content = <<>> THEN st
            ELSE [st EXCEPT !.chunks = Append(@, [title |-> chunk.title, section |-> chunk.section,
                                                  content |-> content, level |-> chunk.level])]

\* part_002:58-68 pushPreamble
pushPreambleMutant(st) == [st EXCEPT !.preamble = <<>>]
pushPreamble(st) ==
    LET content == Trim(JoinWith(st.preamble, <<NewLine>>))
    IN IF content = <<>> THEN st
       ELSE [st EXCEPT !.chunks = Append(@, [title |-> PreambleTitle, section |-> PreambleTitle,
                                             content |-> content, level |-> 0]),
                       !.preamble = <<>>]

\* part_002:70-102 one turn of the loop over the lines
ChunkLine(st, line) ==
    IF IsHeading(line)
    THEN LET a == IF ~st.sawHeading /\ Len(st.preamble) > 0 THEN pushPreamble(st) ELSE st
             b == pushChunk([a EXCEPT !.sawHeading = TRUE])
             headingStack == Append(PopStack(b.headingStack, LevelOf(line)),
                                    [level |-> LevelOf(line), title |-> HeadingOf(line)])
         IN [b EXCEPT !.headingStack = headingStack,
                      !.current = <<[title |-> HeadingOf(line), section |-> Breadcrumb(headingStack),
                                     level |-> LevelOf(line), lines |-> <<line>>]>>]
    ELSE IF ~st.sawHeading
    THEN IF Trim(line) # <<>> THEN [st EXCEPT !.preamble = Append(@, line)] ELSE st
    ELSE IF st.current = <<>> THEN st
    ELSE [st EXCEPT !.current[1].lines = Append(@, line)]

RECURSIVE ChunkLines(_, _)
ChunkLines(st, lines) ==
    IF lines = <<>> THEN st ELSE ChunkLines(ChunkLine(st, Head(lines)), Tail(lines))

\* part_002:33-115 chunkMarkdown
chunkMarkdown(text) ==
    LET st == ChunkLines([chunks |-> <<>>, headingStack |-> <<>>, current |-> <<>>,
                          preamble |-> <<>>, sawHeading |-> FALSE],
                         SplitLines(text, <<>>))
        a == pushChunk(st)
        b == IF ~a.sawHeading /\ Len(a.preamble) > 0 THEN pushPreamble(a) ELSE a
    IN b.chunks

\* the companion document: "# Intro", and under it "## Usage" twice
FullDocument == MdIntro \o <<NewLine>> \o MdUsageDog \o <<NewLine>> \o MdUsageCat

\* part_002:117-141 the chunks the llms-full worker sends for it, or its failure
FullChunks == chunkMarkdown(FullDocument)
FullResults == {[ok |-> TRUE, chunks |-> FullChunks], [ok |-> FALSE, chunks |-> <<>>]}

\* the documents crawler.crawl(initialUrls) may return for these seeds
Crawled(url, depth, seed) ==
    [url |-> url, content |-> PageOf(url).content, depth |-> depth,
     section |-> seed.section, title |-> seed.title]
CrawlResults(seeds) ==
    {<<>>, <<Crawled(seeds[1].url, 0, seeds[1])>>,
     <<Crawled(seeds[1].url, 0, seeds[1]), Crawled(UrlD, 1, seeds[1])>>}

(***************************************************************************)
(* The service's own state.  indexAll() runs in the steps its awaits on    *)
(* I/O cut it into; what follows an await up to the next one is one step   *)
(* (run to completion), so passes started by the timer and by the reindex  *)
(* tool interleave at those awaits.  Its SearchIndex is the index above.   *)
(***************************************************************************)
MaxPasses == 3

Slots == {1, 2}

\* an optional number: undefined, or the number
None == <<>>
Some(n) == <<n>>

\* IndexingOptions (server.ts:204-249), the configurations explored
ServiceOptions ==
    {[llmsUrl |-> LlmsUrl, maxPages |-> 0, preferFull |-> FALSE, crawlDepth |-> 0, refreshMinutes |-> 60],
     [llmsUrl |-> LlmsUrl, maxPages |-> 2, preferFull |-> FALSE, crawlDepth |-> 1, refreshMinutes |-> 60],
     [llmsUrl |-> LlmsUrl, maxPages |-> 3, preferFull |-> TRUE, crawlDepth |-> 0, refreshMinutes |-> 0]}

\* server.ts:611-618 the status a new service holds
NewStatus ==
    [pagesIndexed |-> 0, inProgress |-> FALSE, lastError |-> Undefined,
     deepCrawledPages |-> None, lastIndexedAt |-> None,
     llmsTitle |-> Undefined, llmsSummary |-> Undefined]

\* one indexAll() call: where it stands, its locals, and what it has done
IdlePass ==
    [pc |-> "idle", trigger |-> "none", targets |-> <<>>, next |-> 0, held |-> NoEntry,
     error |-> Undefined, touched |-> FALSE, fetched |-> {}, faults |-> {}, crawled |-> 0,
     chunked |-> 0]

\* the service fields one step of a pass reads and writes, as one record
Service(p) ==
    [options |-> serviceOptions, parsed |-> parsed, documents |-> cachedDocuments,
     searchIndex |-> Index, status |-> status, pass |-> passes[p], now |-> started]

EndsWithMd(url) == Len(url) > 0 /\ url[Len(url)] = ".md"

\* server.ts:794-808 inferFullUrl; the empty URL stands for null
inferFullUrl(llmsUrl) ==
    LET last == IF llmsUrl = <<>> THEN "" ELSE llmsUrl[Len(llmsUrl)]
    IN CASE last = "/llms.txt" -> [llmsUrl EXCEPT ![Len(llmsUrl)] = "/llms-full.txt"]
         [] last = "llms.txt" -> [llmsUrl EXCEPT ![Len(llmsUrl)] = "llms-full.txt"]
         [] last = "/llm.txt" -> [llmsUrl EXCEPT ![Len(llmsUrl)] = "/llm-full.txt"]
         [] last = "llm.txt" -> [llmsUrl EXCEPT ![Len(llmsUrl)] = "llm-full.txt"]
         [] OTHER -> <<>>

\* server.ts:918-923 normalizeContent
normalizeContent(content, contentType) ==
    IF Includes(contentType, "text/html") THEN Turndown(content) ELSE content

\* server.ts:758-769 addDocument: the map and the index change in one step
addDocumentMutant(s, doc) == [s EXCEPT !.documents = DocSet(@, doc)]
addDocument(s, doc) ==
    [s EXCEPT !.documents = DocSet(@, doc),
              !.searchIndex = upsert(@, [id |-> doc.id, url |-> doc.url, title |-> doc.title,
                                         section |-> doc.section, optional |-> doc.optional,
                                         text |-> toPlainText(doc.content)])]

RECURSIVE addDocuments(_, _)
addDocuments(s, docs) ==
    IF docs = <<>> THEN s ELSE addDocuments(addDocument(s, Head(docs)), Tail(docs))

\* server.ts:724-728 catch and finally
Catch(s, message) ==
    [s EXCEPT !.status.lastError = message, !.status.inProgress = FALSE,
              !.pass.pc = "done", !.pass.error = message]

\* server.ts:722-723, 726-728 the end of a pass that met no fault
Complete(s) ==
    [s EXCEPT !.status.lastIndexedAt = Some(s.now),
              !.status.pagesIndexed = Len(s.documents),
              !.status.inProgress = FALSE,
              !.pass.pc = "done"]

\* server.ts:947-953 the markdown links that seed the crawl
Seeds(links) ==
    LET md == SelectSeq(links, LAMBDA link : IsMarkdownUrl(link.url))
    IN [i \in 1..Len(md) |-> [url |-> md[i].url, section |-> md[i].section, title |-> md[i].title]]

\* server.ts:717-720, 925-961 after the last link: the crawl, or the end
AfterLinks(s) ==
    IF s.options.crawlDepth > 0 /\ Seeds(s.pass.targets) # <<>>
    THEN [s EXCEPT !.pass.pc = "crawl"]
    ELSE Complete(s)

\* server.ts:713-715 the loop over the links: the fetch of the next one starts
NextLink(s) ==
    IF s.pass.next < Len(s.pass.targets)
    THEN [s EXCEPT !.pass.next = @ + 1, !.pass.pc = "link",
                   !.pass.fetched = @ \cup {s.pass.targets[s.pass.next + 1].url}]
    ELSE AfterLinks(s)

FailedToFetch(code) ==
    IF code = 404 THEN "Failed to fetch llms.txt (404)" ELSE "Failed to fetch llms.txt"

\* server.ts:694-713 the new manifest replaces the old generation; the links
\* to index are targets.slice(0, Math.max(1, maxPages))
Replace(s, manifest) ==
    [s EXCEPT !.parsed = manifest,
              !.status.llmsTitle = manifest.title,
              !.status.llmsSummary = manifest.summary,
              !.documents = <<>>,
              !.searchIndex = clear(@),
              !.pass.touched = TRUE,
              !.pass.targets = Slice(manifest.links, Max(1, s.options.maxPages))]

\* server.ts:688-711 the step after the manifest's fetch settles
OnManifestMutant(s, outcome) ==
    IF outcome.rejects THEN Catch(s, outcome.message)
    ELSE LET result == IF outcome.entry.ok THEN parseLlmsTxt(outcome.entry.content)
                       ELSE [throws |-> TRUE, message |-> FailedToFetch(outcome.entry.status)]
         IN IF result.throws
            THEN Catch([s EXCEPT !.documents = <<>>, !.searchIndex = clear(@)], result.message)
            ELSE LET t == Replace(s, [title |-> result.title, summary |-> result.summary,
                                      links |-> result.links])
                 IN IF s.options.preferFull /\ inferFullUrl(s.options.llmsUrl) # <<>>
                    THEN [t EXCEPT !.pass.pc = "full"]
                    ELSE NextLink(t)
OnManifest(s, outcome) ==
    IF outcome.rejects THEN Catch(s, outcome.message)
    ELSE IF ~outcome.entry.ok THEN Catch(s, FailedToFetch(outcome.entry.status))
    ELSE LET result == parseLlmsTxt(outcome.entry.content)
         IN IF result.throws THEN Catch(s, result.message)
            ELSE LET t == Replace(s, [title |-> result.title, summary |-> result.summary,
                                      links |-> result.links])
                 IN IF s.options.preferFull /\ inferFullUrl(s.options.llmsUrl) # <<>>
                    THEN [t EXCEPT !.pass.pc = "full"]
                    ELSE NextLink(t)

\* server.ts:771-792 indexFullDocument once the worker has answered
ChunkDocuments(fullUrl, chunks) ==
    [i \in 1..Len(chunks) |->
        [id |-> fullUrl \o <<"#">> \o chunks[i].section, url |-> fullUrl,
         title |-> chunks[i].title, section |-> chunks[i].section, optional |-> FALSE,
         content |-> chunks[i].content]]
OnFull(s, result) ==
    IF ~result.ok THEN NextLink(s)
    ELSE NextLink(addDocuments([s EXCEPT !.pass.chunked = Len(result.chunks)],
                               ChunkDocuments(inferFullUrl(s.options.llmsUrl), result.chunks)))

\* server.ts:741-756 indexLink once fetchWithMarkdownFallback has an entry
IndexEntry(s, entry) ==
    LET link == s.pass.targets[s.pass.next]
    IN IF ~entry.ok THEN NextLink(s)
       ELSE NextLink(addDocument(s, [id |-> link.url, url |-> link.url, title |-> link.title,
                                     section |-> link.section, optional |-> link.optional,
                                     content |-> normalizeContent(entry.content, entry.contentType)]))

\* a rejection of cache.fetch leaves indexLink and the loop, to the catch
FetchRejected(s, message) ==
    Catch([s EXCEPT !.pass.faults = @ \cup {s.pass.targets[s.pass.next].url}], message)

\* server.ts:810-820 the step after a link's fetch settles
OnLink(s, outcome) ==
    IF outcome.rejects THEN FetchRejected(s, outcome.message)
    ELSE LET entry == outcome.entry
             url == s.pass.targets[s.pass.next].url
         IN IF entry.ok /\ Includes(entry.contentType, "text/html") /\ ~EndsWithMd(url)
            THEN [s EXCEPT !.pass.pc = "fallback", !.pass.held = entry]
            ELSE IndexEntry(s, entry)

\* server.ts:818-829 the step after the fetch of `${url}.md` settles
OnFallback(s, outcome) ==
    IF outcome.rejects THEN FetchRejected(s, outcome.message)
    ELSE IndexEntry([s EXCEPT !.pass.held = NoEntry],
                    IF outcome.entry.ok THEN outcome.entry ELSE s.pass.held)

\* server.ts:962-983 the crawled documents below the seeds enter the index
CrawledDocuments(crawledDocs) ==
    LET deep == SelectSeq(crawledDocs, LAMBDA doc : doc.depth # 0)
    IN [i \in 1..Len(deep) |->
           [id |-> deep[i].url \o <<"-depth-", ToString(deep[i].depth)>>, url |-> deep[i].url,
            title |-> deep[i].title, section |-> deep[i].section,
            optional |-> deep[i].depth > 0, content |-> deep[i].content]]
OnCrawl(s, crawledDocs) ==
    LET t == addDocuments(s, CrawledDocuments(crawledDocs))
    IN Complete([t EXCEPT !.status.deepCrawledPages =
                     Some(Len(SelectSeq(crawledDocs, LAMBDA doc : doc.depth > 0))),
                          !.pass.crawled = Len(CrawledDocuments(crawledDocs))])

\* the service after one step of pass p; startServer goes on once its pass ends
CommitService(p, s) ==
    /\ parsed' = s.parsed
    /\ cachedDocuments' = s.documents
    /\ CommitIndex(s.searchIndex)
    /\ status' = s.status
    /\ passes' = [passes EXCEPT ![p] = s.pass]
    /\ phase' = IF s.pass.pc = "done" /\ s.pass.trigger = "startup" THEN "serving" ELSE phase
    /\ UNCHANGED <<serviceOptions, started, lastUpsert, lastSearch, lastClear, crawlVars, cacheVars, workerVars>>

\* server.ts:611-618 a new IndexingService, under one of the configurations
ServiceInit ==
    /\ serviceOptions \in ServiceOptions
    /\ parsed = NoEntry
    /\ cachedDocuments = <<>>
    /\ status = NewStatus
    /\ passes = [p \in Slots |-> IdlePass]
    /\ phase = "constructed"
    /\ started = 0

\* No service: its fields stay as constructed.
ServiceIdle ==
    /\ serviceOptions = [llmsUrl |-> LlmsUrl, maxPages |-> 0, preferFull |-> FALSE,
                         crawlDepth |-> 0, refreshMinutes |-> 0]
    /\ parsed = NoEntry
    /\ cachedDocuments = <<>>
    /\ status = NewStatus
    /\ passes = [p \in Slots |-> IdlePass]
    /\ phase = "constructed"
    /\ started = 0

\* a new call takes the first slot no call holds
FreeSlot(p) == passes[p].pc = "idle" /\ \A q \in Slots : passes[q].pc = "idle" => p <= q

\* server.ts:683-688 indexAll() up to its first await
IndexAll(p, trigger) ==
    /\ FreeSlot(p)
    /\ started < MaxPasses
    /\ started' = started + 1
    /\ passes' = [passes EXCEPT ![p] = [IdlePass EXCEPT !.pc = "manifest", !.trigger = trigger]]
    /\ status' = [status EXCEPT !.inProgress = TRUE, !.lastError = Undefined,
                                !.deepCrawledPages = Some(0)]
    /\ UNCHANGED <<serviceOptions, parsed, cachedDocuments, indexVars, crawlVars, cacheVars, workerVars>>

\* server.ts:10-12 startServer awaits the first pass
StartServer(p) ==
    /\ phase = "constructed"
    /\ phase' = "starting"
    /\ IndexAll(p, "startup")

\* server.ts:735-737 the interval fires
TimerFires(p) ==
    /\ phase = "serving"
    /\ serviceOptions.refreshMinutes > 0
    /\ IndexAll(p, "timer")
    /\ UNCHANGED phase

\* server.ts:167-182 the reindex tool
ReindexTool(p) ==
    /\ phase = "serving"
    /\ IndexAll(p, "tool")
    /\ UNCHANGED phase

ManifestFetched(p) ==
    /\ passes[p].pc = "manifest"
    /\ \E outcome \in ManifestFetches : CommitService(p, OnManifest(Service(p), outcome))

FullWorkerDone(p) ==
    /\ passes[p].pc = "full"
    /\ \E result \in FullResults : CommitService(p, OnFull(Service(p), result))

LinkFetched(p) ==
    /\ passes[p].pc = "link"
    /\ \E outcome \in PageFetches(passes[p].targets[passes[p].next].url) :
          CommitService(p, OnLink(Service(p), outcome))

FallbackFetched(p) ==
    /\ passes[p].pc = "fallback"
    /\ \E outcome \in PageFetches(Append(passes[p].targets[passes[p].next].url, ".md")) :
          CommitService(p, OnFallback(Service(p), outcome))

CrawlDone(p) ==
    /\ passes[p].pc = "crawl"
    /\ \E crawledDocs \in CrawlResults(Seeds(passes[p].targets)) :
          CommitService(p, OnCrawl(Service(p), crawledDocs))

\* the promise of a finished call is dropped
PassOver(p) ==
    /\ passes[p].pc = "done"
    /\ passes' = [passes EXCEPT ![p] = IdlePass]
    /\ UNCHANGED <<serviceOptions, parsed, cachedDocuments, status, phase, started,
                   indexVars, crawlVars, cacheVars, workerVars>>

ServiceNext ==
    \/ \E p \in Slots : StartServer(p)
    \/ \E p \in Slots : TimerFires(p)
    \/ \E p \in Slots : ReindexTool(p)
    \/ \E p \in Slots : ManifestFetched(p)
    \/ \E p \in Slots : FullWorkerDone(p)
    \/ \E p \in Slots : LinkFetched(p)
    \/ \E p \in Slots : FallbackFetched(p)
    \/ \E p \in Slots : CrawlDone(p)
    \/ \E p \in Slots : PassOver(p)

(***************************************************************************)
(* The documents the llms-full worker is given in the model.               *)
(***************************************************************************)
\* the lines the documents are made of
LinePool ==
    {<<"#", " ", "A">>,
     <<"#", "#", " ", "B">>,
     <<"#", "#", "#", " ", "C">>,
     <<"#", " ", " ">>,
     <<"t", "e", "x", "t">>,
     <<>>,
     <<" ", " ">>,
     <<"#", "x">>}

RECURSIVE LineSeqs(_)
LineSeqs(n) ==
    IF n = 0 THEN {<<>>}
    ELSE LineSeqs(n - 1) \cup {Append(ls, l) : ls \in {x \in LineSeqs(n - 1) : Len(x) = n - 1}, l \in LinePool}

Markdowns == {JoinWith(ls, <<NewLine>>) : ls \in LineSeqs(MaxLines)}

NotChunked == [called |-> FALSE]

ChunkInit ==
    /\ workerMarkdown \in Markdowns
    /\ workerChunks = NotChunked

\* No worker: nothing to chunk.
ChunkIdle ==
    /\ workerMarkdown = <<>>
    /\ workerChunks = NotChunked

\* part_002:117-150 the worker chunks the document it has fetched
ChunkDocument ==
    /\ workerChunks = NotChunked
    /\ workerChunks' = [called |-> TRUE, chunks |-> chunkMarkdown(workerMarkdown)]
    /\ UNCHANGED <<workerMarkdown, crawlVars, indexVars, cacheVars, serviceVars>>

ChunkNext == ChunkDocument

(***************************************************************************)
(* The search tool (src/src/server.ts:22-50) on an index that an indexing  *)
(* pass has filled: indexing.search(query, limit, section) with the limit  *)
(* the tool's schema admits, or none.                                      *)
(***************************************************************************)
MaxIndexed == 6

IndexedIds == <<"n1", "n2", "n3", "n4", "n5", "n6", "n7", "n8">>

\* the i-th document of a filled index: three texts in rotation, and from
\* the fourth on optional documents with the texts of the first three
IndexedDocument(i, turn) ==
    [DocVersion(IndexedIds[i], ((i + turn) % 3) + 1) EXCEPT !.optional = (i > 3)]

IndexedDocuments(count, turn) == [i \in 1..count |-> IndexedDocument(i, turn)]

LongDocument ==
    [id |-> "long", url |-> <<"long", "v1">>, title |-> "Long", section |-> SectionGuide,
     optional |-> FALSE, text |-> TextLong]

\* search.ts:74-116 the index after upserting docs in order into a new one
RECURSIVE Filled(_)
Filled(docs) ==
    IF docs = <<>>
    THEN [documents |-> <<>>, termDocFreq |-> EmptyMap, termFreq |-> EmptyMap,
          docLengths |-> EmptyMap, avgDocLength |-> Zero, totalDocLength |-> 0]
    ELSE upsert(Filled(SubSeq(docs, 1, Len(docs) - 1)), docs[Len(docs)])

FilledInit ==
    /\ \E count \in 0..MaxIndexed, turn \in 0..2, long \in BOOLEAN :
          LET ix == Filled(IndexedDocuments(count, turn)
                              \o (IF long THEN <<LongDocument>> ELSE <<>>))
          IN /\ documents = ix.documents
             /\ termDocFreq = ix.termDocFreq
             /\ termFreq = ix.termFreq
             /\ docLengths = ix.docLengths
             /\ avgDocLength = ix.avgDocLength
             /\ totalDocLength = ix.totalDocLength
    /\ lastUpsert = NoUpsert
    /\ lastSearch = NoSearch
    /\ lastClear = NoClear

\* server.ts:28 limit: z.number().int().min(1).max(20).optional()
ToolLimits == {<<>>, <<1>>, <<2>>, <<20>>}

\* search.ts:127 limit = 5
LimitOrDefault(limit) == IF limit = <<>> THEN DefaultLimit ELSE limit[1]

\* server.ts:31-32 the search tool calls indexing.search
SearchTool ==
    /\ \E query \in Queries \cup ProbeQueries, limit \in ToolLimits, section \in SectionFilters :
          lastSearch' = [query |-> query, limit |-> LimitOrDefault(limit), section |-> section,
                         results |-> search(Index, query, LimitOrDefault(limit), section),
                         called |-> TRUE]
    /\ UNCHANGED <<documents, termDocFreq, termFreq, docLengths, avgDocLength,
                   totalDocLength, lastUpsert, lastClear>>
    /\ UNCHANGED <<crawlVars, cacheVars, serviceVars, workerVars>>

SearchNext == SearchTool

(***************************************************************************)
(* Specifications, one per component.                                      *)
(***************************************************************************)
InitCrawl == CrawlInit /\ IndexInit /\ CacheIdle /\ ServiceIdle /\ ChunkIdle
SpecCrawl == InitCrawl /\ [][CrawlNext]_vars

\* the crawl with its scheduling: crawl() is called, the timer of the idle
\* wait fires, and every worker thread ends (its exit event settles it)
SpecCrawlLive ==
    InitCrawl /\ [][CrawlNext]_vars
        /\ WF_vars(Crawl) /\ WF_vars(WakeUp) /\ WF_vars(WorkerExit)

InitIndex == IndexInit /\ CrawlIdle /\ CacheIdle /\ ServiceIdle /\ ChunkIdle
SpecIndex == InitIndex /\ [][IndexNext]_vars

InitCache == CacheInit /\ CrawlIdle /\ IndexInit /\ ServiceIdle /\ ChunkIdle
SpecCache == InitCache /\ [][CacheNext]_vars

\* The service's fetches and the crawl workers' fetches over one cache directory.
InitWorkerFetch == CacheInit /\ CrawlIdle /\ IndexInit /\ ServiceIdle /\ ChunkIdle
SpecWorkerFetch == InitWorkerFetch /\ [][WorkerFetchNext]_vars

InitService == ServiceInit /\ IndexInit /\ CrawlIdle /\ CacheIdle /\ ChunkIdle
SpecService == InitService /\ [][ServiceNext]_vars

InitSearch == FilledInit /\ CrawlIdle /\ CacheIdle /\ ServiceIdle /\ ChunkIdle
SpecSearch == InitSearch /\ [][SearchNext]_vars

InitChunk == ChunkInit /\ IndexInit /\ CrawlIdle /\ CacheIdle /\ ServiceIdle
SpecChunk == InitChunk /\ [][ChunkNext]_vars

(***************************************************************************)
(* Properties of the crawl.                                                *)
(***************************************************************************)
ResultUrls == {results[k].url : k \in 1..Len(results)}
WorkerUrls == {workers[i].task.url : i \in 1..Len(workers)}
Failed(w) == w.settledBy \in {"failure", "error", "exit"}

\* C1: the list crawl() returns holds at most maxDocuments documents.
C1_ReturnedWithinBudget ==
    pc = "done" => Len(results) <= options.maxDocuments

\* C2: within one crawl run no URL is dispatched to a worker more than once,
\* also when it is queued several times or its first dispatch failed.
C2_NoUrlDispatchedTwice ==
    \A i, j \in 1..Len(workers) :
        i # j => workers[i].task.url # workers[j].task.url

\* A URL that was dispatched as a seed and failed is also linked from a page
\* fetched successfully, and the run has ended.
C2_Witness ==
    /\ pc = "done"
    /\ \E i, j \in 1..Len(workers) :
          /\ Failed(workers[i])
          /\ workers[i].task.depth = 0
          /\ workers[j].settledBy = "success"
          /\ \E n \in 1..Len(workers[j].links) :
                workers[j].links[n] = workers[i].task.url

\* C3: every queued task, every dispatched task and every document has
\* depth <= maxDepth; a worker returns links only for a task with
\* depth < maxDepth; and from the seed A.md with maxDepth = 1, all fetches
\* succeeding and the budget not reached, the result is exactly {A, B, C}
\* and D is never fetched.
C3_DepthBounded ==
    /\ \A k \in 1..Len(pendingTasks) : pendingTasks[k].depth <= options.maxDepth
    /\ \A i \in 1..Len(workers) :
          /\ workers[i].task.depth <= options.maxDepth
          /\ workers[i].links # <<>> => workers[i].task.depth < options.maxDepth
    /\ \A k \in 1..Len(results) : results[k].depth <= options.maxDepth
    /\ ( /\ pc = "done"
         /\ initialUrls = <<Seed(UrlA, "Docs", "a")>>
         /\ options.maxDepth = 1
         /\ options.maxDocuments >= 3
         /\ \A i \in 1..Len(workers) : workers[i].settledBy = "success" )
       => (ResultUrls = {UrlA, UrlB, UrlC} /\ UrlD \notin WorkerUrls)

\* The example run has ended: A, B and C fetched at maxDepth = 1, B's page
\* (which links D) fetched at depth 1.
C3_Witness ==
    /\ pc = "done"
    /\ initialUrls = <<Seed(UrlA, "Docs", "a")>>
    /\ options.maxDepth = 1
    /\ options.maxDocuments >= 3
    /\ \A i \in 1..Len(workers) : workers[i].settledBy = "success"
    /\ \E k \in 1..Len(results) : results[k].url = UrlB /\ results[k].depth = 1

\* C4: the number of workers in flight is between 0 and maxWorkers.
C4_ActiveWorkersBounded ==
    /\ 0 <= activeWorkers
    /\ activeWorkers <= options.maxWorkers

\* The pool is full while tasks wait, after a worker has already gone
\* through message, error and exit.
C4_Witness ==
    /\ options.maxWorkers >= 2
    /\ activeWorkers = options.maxWorkers
    /\ pendingTasks # <<>>
    /\ \E i \in 1..Len(workers) : workers[i].phase = "exited"

\* C5: whatever events a failing worker raises, its in-flight slot is given
\* back exactly once, it adds no document and no child task, and crawl()
\* does not reject: it ends with the documents of the other workers.
C5_FailureIsolated ==
    /\ pc # "rejected"
    /\ \A i \in 1..Len(workers) :
          /\ workers[i].decrements = (IF workers[i].settled THEN 1 ELSE 0)
          /\ Failed(workers[i]) =>
                /\ workers[i].task.url \notin ResultUrls
                /\ \A k \in 1..Len(pendingTasks) :
                      pendingTasks[k].parentUrl # workers[i].task.url
                /\ \A j \in 1..Len(workers) :
                      workers[j].task.parentUrl # workers[i].task.url
    /\ activeWorkers = Cardinality({i \in 1..Len(workers) : ~workers[i].settled})
    /\ pc = "done" =>
          ResultUrls = {workers[i].task.url : i \in
                           {j \in 1..Len(workers) : workers[j].settledBy = "success"}}

\* crawl() has returned a document although one worker posted a failure and
\* then raised an error and exited, one raised an error only, and one exited
\* silently.
C5_Witness ==
    /\ pc = "done"
    /\ results # <<>>
    /\ \E i \in 1..Len(workers) :
          workers[i].settledBy = "failure" /\ workers[i].phase = "exited"
    /\ \E i \in 1..Len(workers) : workers[i].settledBy = "error"
    /\ \E i \in 1..Len(workers) : workers[i].settledBy = "exit"

(***************************************************************************)
(* Properties of the index.                                                *)
(***************************************************************************)
DocTokens(doc) == tokenize(doc.text)
HeldTerms == UNION {Range(DocTokens(documents[i])) : i \in 1..Len(documents)}
DocsWithTerm(t) == {i \in 1..Len(documents) : t \in Range(DocTokens(documents[i]))}

RECURSIVE SumTokenCounts(_)
SumTokenCounts(docs) ==
    IF docs = <<>> THEN 0 ELSE Len(DocTokens(Head(docs))) + SumTokenCounts(Tail(docs))

\* C6: after any sequence of upserts and clears the document-frequency table
\* holds, for exactly the terms of the held documents, the number of held
\* documents containing the term; totalDocLength is the sum of their token
\* counts; avgDocLength is totalDocLength / document count, 0 when empty.
C6_StatisticsExact ==
    /\ DOMAIN termDocFreq = HeldTerms
    /\ \A t \in HeldTerms : termDocFreq[t] = Cardinality(DocsWithTerm(t))
    /\ totalDocLength = SumTokenCounts(documents)
    /\ IF Len(documents) = 0
       THEN avgDocLength = Zero
       ELSE avgDocLength.num * Len(documents) = totalDocLength * avgDocLength.den

\* An id has just been upserted again with a text of another length and
\* other terms, while a second document is held.
C6_Witness ==
    /\ lastUpsert.old # <<>>
    /\ Len(documents) = 2
    /\ Len(DocTokens(lastUpsert.old[1])) # Len(DocTokens(lastUpsert.new[1]))
    /\ Range(DocTokens(lastUpsert.old[1])) \ Range(DocTokens(lastUpsert.new[1])) # {}
    /\ Range(DocTokens(lastUpsert.new[1])) \ Range(DocTokens(lastUpsert.old[1])) # {}

C7Queries == Queries \cup ProbeQueries
WithId(rs, id) == {k \in 1..Len(rs) : rs[k].id = id}

\* C7: after an upsert of an id the index already held, one document has
\* that id; a search matching the new text returns it once, with the new
\* version's fields; a query made only of tokens of the old text that are
\* not in the new text does not return it.
C7_UpsertReplaces ==
    lastUpsert.old # <<>> =>
        LET old == lastUpsert.old[1]
            new == lastUpsert.new[1]
            oldOnly == Range(DocTokens(old)) \ Range(DocTokens(new))
        IN /\ Cardinality({i \in 1..Len(documents) : documents[i].id = new.id}) = 1
           /\ \A q \in C7Queries :
                 LET rs == search(Index, q, DefaultLimit, <<>>)
                 IN /\ Range(tokenize(q)) \cap Range(DocTokens(new)) # {} =>
                          /\ Cardinality(WithId(rs, new.id)) = 1
                          /\ \A k \in WithId(rs, new.id) :
                                /\ rs[k].url = new.url
                                /\ rs[k].title = new.title
                                /\ rs[k].section = new.section
                    /\ (tokenize(q) # <<>> /\ Range(tokenize(q)) \subseteq oldOnly) =>
                          WithId(rs, new.id) = {}

\* A document about "fox" was replaced by one about "dog"; a search for
\* "FOX dog" made afterwards returned it with the new title, next to another
\* document.
C7_Witness ==
    /\ lastUpsert.old # <<>>
    /\ lastUpsert.old[1].text = TextFox
    /\ lastUpsert.new[1].text = TextDog
    /\ lastSearch.called
    /\ lastSearch.query = <<"F", "O", "X", " ", "d", "o", "g">>
    /\ Len(lastSearch.results) = 2
    /\ \E k \in 1..2 : /\ lastSearch.results[k].id = lastUpsert.new[1].id
                       /\ lastSearch.results[k].title = "Dog"

(***************************************************************************)
(* Properties of the cache.                                                *)
(***************************************************************************)
Returned(c) == calls[c].pc = "returned"
Rejected(c) == calls[c].pc = "rejected"
HadEntry(c) == calls[c].seen # NoFile /\ calls[c].seen # Garbage
Answered304(c) == calls[c].response # NoEntry /\ calls[c].response.status = 304

\* C8: a fetch of a URL with a persisted entry that the server answers with
\* 304 returns exactly the persisted entry (content, status, etag,
\* lastModified, fetchedAt and all other members) and writes nothing: unless
\* another call wrote the URL meanwhile, the file is the one it read.
C8_NotModifiedReturnsPersisted ==
    \A c \in Callers :
        (Returned(c) /\ Answered304(c) /\ HadEntry(c)) =>
            /\ calls[c].result = Parse(calls[c].seen)
            /\ ~calls[c].wrote
            /\ (~calls[c].interfered => files[filePath(calls[c].url)] = calls[c].seen)

C8_Witness ==
    \E c \in Callers :
        /\ Returned(c) /\ Answered304(c) /\ HadEntry(c)
        /\ calls[c].result.content = Hello
        /\ calls[c].result.etag = "a1"
        /\ files[filePath(calls[c].url)] = calls[c].seen

\* C9: a fetch whose request is aborted by the timeout returns a failure
\* entry with ok = false, status 408 and empty content; it does not reject.
C9_TimeoutYieldsFailureEntry ==
    \A c \in Callers :
        calls[c].error = "timeout" =>
            /\ Returned(c)
            /\ calls[c].result # NoEntry
            /\ calls[c].result.ok = FALSE
            /\ calls[c].result.status = 408
            /\ calls[c].result.content = Empty

NonTimeoutFaults == {"network", "body", "write"}

C15_ResponsePersistedAndReturned ==
    \A c \in Callers :
        (Returned(c) /\ calls[c].response # NoEntry /\ ~(Answered304(c) /\ HadEntry(c))) =>
            LET response == calls[c].response
                result == calls[c].result
            IN /\ result # NoEntry
               /\ result.url = calls[c].url
               /\ result.status = response.status
               /\ result.ok = (response.status \in 200..299)
               /\ result.contentType =
                      (IF response.contentType = Null THEN Undefined ELSE response.contentType)
               /\ result.etag = response.etag
               /\ result.lastModified = response.lastModified
               /\ result.content = response.body
               /\ calls[c].wrote
               /\ (~calls[c].interfered => get(files, calls[c].url) = result)

C15_Witness ==
    \E c \in Callers :
        /\ Returned(c) /\ HadEntry(c) /\ ~calls[c].interfered
        /\ calls[c].response # NoEntry
        /\ calls[c].response.status = 404
        /\ calls[c].result.ok = FALSE
        /\ calls[c].result.content = NotFound
        /\ calls[c].result # Parse(calls[c].seen)
        /\ get(files, calls[c].url) = calls[c].result

\* C16: at any time each URL has one file at most, and a read of it by
\* get(url) yields either null or one complete entry that some writer wrote
\* for that URL, never a mixture of two entries.
C16_ReadYieldsWholeEntry ==
    \A url \in CacheUrls :
        LET entry == get(files, url)
        IN entry = NoEntry \/ (entry \in persisted /\ entry.url = url)

NonEmpty(v) == v \notin {Null, Undefined, ""}

\* C17: the request of a fetch carries If-None-Match exactly when the
\* persisted entry of the URL has a non-empty etag, with that etag as value,
\* and If-Modified-Since exactly when it has a non-empty lastModified, with
\* that value; it carries no other header, and none without a persisted entry.
C17_RevalidationHeaders ==
    \A c \in Callers :
        calls[c].pc \notin {"idle", "got"} =>
            LET headers == calls[c].headers
                entry == Parse(calls[c].seen)
            IN /\ DOMAIN headers \subseteq {"If-None-Match", "If-Modified-Since"}
               /\ ("If-None-Match" \in DOMAIN headers)
                      <=> (HadEntry(c) /\ NonEmpty(entry.etag))
               /\ ("If-None-Match" \in DOMAIN headers)
                      => headers["If-None-Match"] = entry.etag
               /\ ("If-Modified-Since" \in DOMAIN headers)
                      <=> (HadEntry(c) /\ NonEmpty(entry.lastModified))
               /\ ("If-Modified-Since" \in DOMAIN headers)
                      => headers["If-Modified-Since"] = entry.lastModified
               /\ (~HadEntry(c) => DOMAIN headers = {})

\* a request with the etag of the entry, and one for an entry whose etag is empty
C17_Witness ==
    /\ \E c \in Callers : calls[c].pc # "idle" /\ DOMAIN calls[c].headers = {"If-None-Match"}
    /\ \E c \in Callers :
           /\ calls[c].pc = "request" /\ HadEntry(c)
           /\ Parse(calls[c].seen).etag = ""
           /\ "If-None-Match" \notin DOMAIN calls[c].headers

\* C18: get(url) sends no request and does not throw: it returns null when
\* the file of the URL is missing or does not parse, and otherwise the entry
\* whose text the file holds, which is the entry a writer persisted whenever
\* the file holds the text of one.
C18_GetReadsPersisted ==
    \A c \in Callers :
        calls[c].pc = "got" =>
            /\ calls[c].response = NoEntry
            /\ calls[c].error = Null
            /\ ~calls[c].wrote
            /\ (calls[c].seen \in {NoFile, Garbage} <=> calls[c].result = NoEntry)
            /\ (calls[c].result # NoEntry =>
                    /\ Stringify(calls[c].result) = calls[c].seen
                    /\ (\E entry \in persisted : Stringify(entry) = calls[c].seen)
                           => calls[c].result \in persisted)

\* a get that reads the entry a fetch has just written over an unparsable file
C18_Witness ==
    /\ files[filePath("u2")] = NoFile
    /\ \E c \in Callers, d \in Callers :
           /\ calls[d].seen = Garbage
           /\ calls[c].pc = "got" /\ calls[d].pc = "returned"
           /\ calls[d].wrote
           /\ calls[c].result = calls[d].result

\* C19: when the HTTP request itself fails with a network error that is not
\* the timeout, fetch rejects with that error: the call ends rejected, no
\* response was received, and it has neither returned nor written an entry.
C19_NetworkErrorRejects ==
    \A c \in Callers :
        calls[c].error = "network" =>
            /\ Rejected(c)
            /\ calls[c].response = NoEntry
            /\ calls[c].result = NoEntry
            /\ calls[c].entry = NoEntry
            /\ ~calls[c].wrote
            /\ (~calls[c].interfered => files[filePath(calls[c].url)] = calls[c].seen)

\* a network error on the revalidation of a persisted entry
C19_Witness ==
    \E c \in Callers :
        /\ Rejected(c) /\ calls[c].error = "network"
        /\ HadEntry(c)
        /\ DOMAIN calls[c].headers = {"If-None-Match"}
        /\ files[filePath(calls[c].url)] = calls[c].seen

\* The index a new SearchIndex reaches by upserting docs in order.
RECURSIVE Rebuilt(_)
Rebuilt(docs) ==
    IF docs = <<>> THEN clear(Index)
    ELSE upsert(Rebuilt(SubSeq(docs, 1, Len(docs) - 1)), docs[Len(docs)])

\* C20: once clear() has been called, and until the next upsert, every
\* search (any query, limit and section filter) returns the empty list and
\* the average document length is 0; after later upserts every statistic
\* is the one a new index would hold for the documents upserted since, with
\* no contribution from the documents the clear dropped.
C20_ClearForgets ==
    lastClear.called =>
        /\ documents = <<>> =>
              /\ avgDocLength = Zero
              /\ totalDocLength = 0
              /\ \A query \in Queries, limit \in Limits, section \in SectionFilters :
                     search(Index, query, limit, section) = <<>>
              /\ lastSearch.called => lastSearch.results = <<>>
        /\ Index = Rebuilt(documents)

\* a search of the index just after a clear that dropped documents
C20_Witness ==
    /\ lastClear.called /\ lastClear.dropped
    /\ documents = <<>>
    /\ lastSearch.called
    /\ lastSearch.query = <<"q", "u", "i", "c", "k">>
    /\ lastSearch.results = <<>>

(***************************************************************************)
(* IndexingService properties.                                             *)
(***************************************************************************)
Done(p) == passes[p].pc = "done"
Running(p) == passes[p].pc \notin {"idle", "done"}

\* C11: a fetch fault on one manifest link does not abort the pass: when a
\* pass is over and the fetch of one of its links has rejected, every link
\* within the page limit has been fetched and the pass has recorded no
\* terminal error.
C11_LinkFaultDoesNotAbort ==
    \A p \in Slots :
        (Done(p) /\ passes[p].faults # {}) =>
            /\ passes[p].error = Undefined
            /\ \A i \in 1..Len(passes[p].targets) :
                   passes[p].targets[i].url \in passes[p].fetched

ManifestErrors == {MissingTitle, FailedToFetch(404)}

\* C12: when the fetched manifest has no H1 title, or the manifest fetch is
\* not ok, the pass records that error in status.lastError, and neither of
\* its two steps (its start and the step that meets the error) changes the
\* document map, the search index or the previously parsed manifest.
C12_ManifestFailureKeepsGeneration ==
    [][\A p \in Slots :
          /\ (passes[p].pc = "idle" /\ passes'[p].pc = "manifest") =>
                UNCHANGED <<parsed, cachedDocuments, documents, termDocFreq, termFreq,
                            docLengths, avgDocLength, totalDocLength>>
          /\ (passes[p].pc = "manifest" /\ passes'[p].error \in ManifestErrors) =>
                /\ passes'[p].pc = "done"
                /\ status'.lastError = passes'[p].error
                /\ UNCHANGED <<parsed, cachedDocuments, documents, termDocFreq, termFreq,
                               docLengths, avgDocLength, totalDocLength>>]_vars

\* a later pass has met a manifest without title, and the generation of
\* the pass before it is still held
C12_Witness ==
    \E p \in Slots :
        /\ Done(p)
        /\ passes[p].trigger # "startup"
        /\ passes[p].error = MissingTitle
        /\ status.lastError = MissingTitle
        /\ ~passes[p].touched
        /\ \A q \in Slots \ {p} : passes[q].pc = "idle"
        /\ parsed # NoEntry
        /\ Len(cachedDocuments) >= 2
        /\ Len(documents) >= 2

\* C13: indexing passes are serialized: whatever the interleaving of the
\* timer and the reindex tool, at most one indexAll pass is between its
\* start and its finally block at any time.
C13_PassesSerialized == Cardinality({p \in Slots : Running(p)}) <= 1

\* C14: at every point where a search can run (any await boundary of any
\* pass, including a pass that ends with an error), the index is internally
\* consistent: the term-frequency maps, the lengths, the document-frequency
\* table, the total and the average length are those of the documents it
\* holds, and these are the documents of the service's map.
C14_IndexConsistent ==
    /\ Index = Rebuilt(documents)
    /\ Len(documents) = Len(cachedDocuments)
    /\ \A i \in 1..Len(documents) :
           /\ documents[i].id = cachedDocuments[i].id
           /\ documents[i].text = toPlainText(cachedDocuments[i].content)

\* two passes overlap, one has ended with an error after clearing, the
\* other is at an await, and a document has been replaced in the index
C14_Witness ==
    \E p, q \in Slots :
        /\ Done(p) /\ passes[p].touched /\ passes[p].error # Undefined
        /\ passes[q].pc \in {"link", "fallback", "crawl"}
        /\ passes[q].touched
        /\ Len(documents) >= 2
        /\ status.inProgress = FALSE

\* C21: when a pass finishes, whether it succeeded or ended with a terminal
\* error, status.pagesIndexed is the number of documents the index holds
\* and status.deepCrawledPages is the number of crawl-produced documents
\* the pass added.
C21_CountsAfterPass ==
    [][\A p \in Slots :
          (Running(p) /\ passes'[p].pc = "done") =>
              /\ status'.pagesIndexed = Len(documents')
              /\ status'.deepCrawledPages = Some(passes'[p].crawled)]_vars

(***************************************************************************)
(* chunkMarkdown properties.                                               *)
(***************************************************************************)
DocLines == SplitLines(workerMarkdown, <<>>)

\* the positions of the heading lines, in document order
HeadingLines == SelectSeq([i \in 1..Len(DocLines) |-> i], LAMBDA i : IsHeading(DocLines[i]))

\* the lines before the first heading (all lines when there is none) that hold text
PreambleLines ==
    SelectSeq([i \in 1..Len(DocLines) |-> i],
              LAMBDA i : /\ Trim(DocLines[i]) # <<>>
                         /\ \A k \in 1..Len(HeadingLines) : i < HeadingLines[k])

PreambleChunks == IF PreambleLines # <<>> THEN 1 ELSE 0

\* the headings that enclose the k-th heading, itself included: those with
\* no later heading of their level or above up to the k-th
Enclosing(k) ==
    SelectSeq(SubSeq(HeadingLines, 1, k),
              LAMBDA j : \A m \in 1..k :
                             (j < HeadingLines[m]) => LevelOf(DocLines[HeadingLines[m]]) > LevelOf(DocLines[j]))

EndsWith(text, tail) ==
    Len(tail) <= Len(text) /\ SubSeq(text, Len(text) - Len(tail) + 1, Len(text)) = tail

\* C22: for every heading of a chunked document, the section of its chunk
\* is the " > "-joined titles of the headings left on the stack after the
\* entries of its level or above are popped and it is pushed: the headings
\* that enclose it; their levels are strictly increasing and the section
\* ends with the chunk's own title.
C22_SectionIsBreadcrumb ==
    workerChunks.called =>
        \A k \in 1..Len(HeadingLines) :
            LET chunk == workerChunks.chunks[k + PreambleChunks]
                stack == Enclosing(k)
            IN /\ chunk.section =
                      JoinWith([i \in 1..Len(stack) |-> HeadingOf(DocLines[stack[i]])], Separator)
               /\ \A i \in 1..(Len(stack) - 1) :
                      LevelOf(DocLines[stack[i]]) < LevelOf(DocLines[stack[i + 1]])
               /\ stack[Len(stack)] = HeadingLines[k]
               /\ EndsWith(chunk.section, chunk.title)

\* "# A / ### C / ## B": the last heading pops one entry and keeps one
C22_Witness ==
    /\ workerChunks.called
    /\ Len(workerChunks.chunks) = 3
    /\ workerChunks.chunks[1].section = <<"A">>
    /\ workerChunks.chunks[2].section = <<"A", " ", ">", " ", "C">>
    /\ workerChunks.chunks[3].section = <<"A", " ", ">", " ", "B">>
    /\ workerChunks.chunks[3].level = 2

\* the lines from the k-th heading up to the next heading or the end
LinesUnder(k) ==
    SubSeq(DocLines, HeadingLines[k],
           IF k < Len(HeadingLines) THEN HeadingLines[k + 1] - 1 ELSE Len(DocLines))

\* C23: chunkMarkdown emits one chunk per heading line, in document order
\* (title, level and the trimmed text from the heading to the next one);
\* text before the first heading makes exactly one chunk "Preamble" with
\* section "Preamble" and level 0, placed first; there is no such chunk
\* without such text, and the empty input gives no chunk.
C23_ChunksInDocumentOrder ==
    workerChunks.called =>
        LET chunks == workerChunks.chunks
        IN /\ Len(chunks) = Len(HeadingLines) + PreambleChunks
           /\ PreambleChunks = 1 =>
                 chunks[1] = [title |-> PreambleTitle, section |-> PreambleTitle, level |-> 0,
                              content |-> Trim(JoinWith([i \in 1..Len(PreambleLines) |->
                                                            DocLines[PreambleLines[i]]],
                                                        <<NewLine>>))]
           /\ \A k \in 1..Len(HeadingLines) :
                 /\ chunks[k + PreambleChunks].title = HeadingOf(DocLines[HeadingLines[k]])
                 /\ chunks[k + PreambleChunks].level = LevelOf(DocLines[HeadingLines[k]])
                 /\ chunks[k + PreambleChunks].level >= 1
                 /\ chunks[k + PreambleChunks].content = Trim(JoinWith(LinesUnder(k), <<NewLine>>))
           /\ workerMarkdown = <<>> => chunks = <<>>

\* "text / # A / text": the preamble chunk comes first, then the heading's
C23_Witness ==
    /\ workerChunks.called
    /\ Len(workerChunks.chunks) = 2
    /\ workerChunks.chunks[1].title = PreambleTitle
    /\ workerChunks.chunks[1].level = 0
    /\ workerChunks.chunks[2].title = <<"A">>
    /\ workerChunks.chunks[2].content = <<"#", " ", "A", NewLine, "t", "e", "x", "t">>

\* C24: a query whose tokenization is empty returns the empty list whatever
\* the index holds, for every limit and section filter.
C24_TokenlessQueryFindsNothing ==
    /\ \A query \in TokenlessQueries, limit \in Limits, section \in SectionFilters :
           search(Index, query, limit, section) = <<>>
    /\ (lastSearch.called /\ lastSearch.query \in TokenlessQueries) => lastSearch.results = <<>>

\* a search for stop words has run on an index that holds them in a text
C24_Witness ==
    /\ lastSearch.called
    /\ lastSearch.query = <<"t", "h", "e", " ", "a">>
    /\ \A query \in TokenlessQueries : tokenize(query) = <<>>
    /\ \E i \in 1..Len(documents) : documents[i].text = TextFox
    /\ Len(documents) = 2
    /\ lastSearch.results = <<>>

(***************************************************************************)
(* Search tool properties.                                                 *)
(***************************************************************************)
\* the documents a search may return: those in the section asked for that
\* score above 0 for the query
Matching(query, section) ==
    {i \in 1..Len(documents) :
        /\ PassesSection(documents[i], section)
        /\ Score(Index, documents[i], tokenize(query)) > 0}

ReturnedIds(rs) == {rs[k].id : k \in 1..Len(rs)}

\* C25: search returns at most `limit` results (5 when the limit is
\* omitted), each a matching document with its score, no document twice,
\* in order of non-increasing score, and no matching document left out
\* scores strictly higher than a returned one; nothing is left out while
\* the limit is not reached.
C25_TopResultsInOrder ==
    lastSearch.called =>
        LET rs == lastSearch.results
            matching == Matching(lastSearch.query, lastSearch.section)
        IN /\ Len(rs) <= lastSearch.limit
           /\ Len(rs) = IF Cardinality(matching) < lastSearch.limit
                        THEN Cardinality(matching) ELSE lastSearch.limit
           /\ Cardinality(ReturnedIds(rs)) = Len(rs)
           /\ \A k \in 1..Len(rs) :
                 \E i \in matching :
                     /\ documents[i].id = rs[k].id
                     /\ rs[k].score = Score(Index, documents[i], tokenize(lastSearch.query))
           /\ \A k \in 1..(Len(rs) - 1) : rs[k].score >= rs[k + 1].score
           /\ \A i \in matching :
                 documents[i].id \notin ReturnedIds(rs) =>
                     \A k \in 1..Len(rs) :
                         Score(Index, documents[i], tokenize(lastSearch.query)) <= rs[k].score

\* six documents match, the limit was omitted, five come back and their
\* scores are not all equal
C25_Witness ==
    /\ lastSearch.called
    /\ lastSearch.limit = DefaultLimit
    /\ Cardinality(Matching(lastSearch.query, lastSearch.section)) = 6
    /\ Len(lastSearch.results) = 5
    /\ lastSearch.results[1].score > lastSearch.results[5].score

\* the index in which the i-th document is, or is not, flagged optional
WithFlag(i, flag) == upsert(Index, [documents[i] EXCEPT !.optional = flag])

\* the score of the i-th document for the query when its flag is as given,
\* everything else being the same
ScoreWithFlag(i, flag, query) ==
    Score(WithFlag(i, flag), [documents[i] EXCEPT !.optional = flag], tokenize(query))

\* C26: for the same index contents and query, a document flagged optional
\* scores exactly 0.7 times what the same document scores when it is not
\* flagged, hence strictly less whenever that score is above 0; a search
\* result carries that score.
C26_OptionalScoresSevenTenths ==
    /\ \A i \in 1..Len(documents), query \in Queries \cup ProbeQueries :
          /\ 10 * ScoreWithFlag(i, TRUE, query) = 7 * ScoreWithFlag(i, FALSE, query)
          /\ ScoreWithFlag(i, FALSE, query) > 0 =>
                ScoreWithFlag(i, TRUE, query) < ScoreWithFlag(i, FALSE, query)
    /\ lastSearch.called =>
          \A k \in 1..Len(lastSearch.results) :
              \E i \in 1..Len(documents) :
                  /\ documents[i].id = lastSearch.results[k].id
                  /\ lastSearch.results[k].score =
                         ScoreWithFlag(i, documents[i].optional, lastSearch.query)

\* a search has returned an optional document and a required one with the
\* same text and length, the first with 0.7 times the score of the second
C26_Witness ==
    /\ lastSearch.called
    /\ \E k, m \in 1..Len(lastSearch.results) :
          \E i, j \in 1..Len(documents) :
              /\ documents[i].id = lastSearch.results[k].id
              /\ documents[j].id = lastSearch.results[m].id
              /\ documents[i].optional /\ ~documents[j].optional
              /\ documents[i].text = documents[j].text
              /\ 10 * lastSearch.results[k].score = 7 * lastSearch.results[m].score
              /\ lastSearch.results[k].score > 0
              /\ k > m

\* the length the snippets are said not to exceed
SnippetLimit == 240

\* C27: the snippet of every search result is at most 240 characters long.
C27_SnippetAtMost240 ==
    lastSearch.called =>
        \A k \in 1..Len(lastSearch.results) :
            Len(lastSearch.results[k].snippet) <= SnippetLimit

\* C28: in one pass the manifest links whose fetch was started are never more
\* than the configured maxPages, whatever that value is (0 included).
C28_LinksWithinMaxPages ==
    \A p \in Slots : Cardinality(passes[p].fetched) <= serviceOptions.maxPages

\* C29: a unit is dispatched only while the results list is shorter than
\* maxDocuments; the step in which the loop is left leaves the pending queue
\* empty, and after it nothing is dispatched in the run.
C29_NoDispatchPastBudget ==
    [][/\ (Len(workers') > Len(workers)) => (Len(results') < options.maxDocuments)
       /\ (pc \notin {"all", "done"} /\ pc' \in {"all", "done"}) => (pendingTasks' = <<>>)
       /\ (pc \in {"all", "done"}) => (Len(workers') = Len(workers))]_vars

\* the budget was reached while a markdown seed was still waiting: the seed
\* was discarded, never dispatched
C29_Witness ==
    /\ pc = "done"
    /\ options.maxDocuments >= 1
    /\ Len(results) >= options.maxDocuments
    /\ \E k \in 1..Len(initialUrls) :
          IsMarkdownUrl(initialUrls[k].url) /\ initialUrls[k].url \notin crawledUrls

\* C30: crawl() returns only when every dispatched unit has settled: no unit
\* is in flight, and the returned list does not change afterwards.
C30_ReturnsAfterAllSettled ==
    [][/\ (pc' = "done") =>
            /\ activeWorkers' = 0
            /\ activePromises' = {}
            /\ \A i \in 1..Len(workers') : workers'[i].settled
       /\ (pc = "done") => (results' = results)]_vars

\* the loop was left at the budget with a unit in flight, whose document
\* arrived before crawl() returned
C30_Witness ==
    /\ pc = "done"
    /\ activeWorkers = 0
    /\ options.maxDocuments >= 1
    /\ Len(results) > options.maxDocuments

\* C31: the depth-0 tasks of a crawl are those of the seeds whose URL ends
\* with ".md" or contains ".md#": every dispatched depth-0 task is such a
\* seed (with its section and title), such a seed is dispatched, still
\* pending, or was discarded at the budget, and a seed of another kind is
\* never visited, pending or returned.
C31_OnlyMarkdownSeeds ==
    pc # "new" =>
        /\ \A i \in 1..Len(workers) :
              workers[i].task.depth = 0 =>
                 \E k \in 1..Len(initialUrls) :
                    /\ IsMarkdownUrl(initialUrls[k].url)
                    /\ workers[i].task.url = initialUrls[k].url
                    /\ workers[i].task.section = initialUrls[k].section
                    /\ workers[i].task.title = initialUrls[k].title
        /\ \A k \in 1..Len(initialUrls) :
              IF IsMarkdownUrl(initialUrls[k].url)
              THEN \/ initialUrls[k].url \in crawledUrls
                   \/ \E j \in 1..Len(pendingTasks) :
                         pendingTasks[j].url = initialUrls[k].url /\ pendingTasks[j].depth = 0
                   \/ Len(results) >= options.maxDocuments
              ELSE /\ initialUrls[k].url \notin crawledUrls
                   /\ \A j \in 1..Len(pendingTasks) : pendingTasks[j].url # initialUrls[k].url
                   /\ \A j \in 1..Len(workers) : workers[j].task.url # initialUrls[k].url
                   /\ \A j \in 1..Len(results) : results[j].url # initialUrls[k].url

\* a crawl over a seed list with a page that is not markdown has returned
\* the documents of its two markdown seeds
C31_Witness ==
    /\ pc = "done"
    /\ \E k \in 1..Len(initialUrls) : ~IsMarkdownUrl(initialUrls[k].url)
    /\ \E i, j \in 1..Len(results) :
          /\ results[i].url = UrlB /\ results[i].depth = 0
          /\ results[j].url = UrlAFrag /\ results[j].depth = 0

\* the child tasks a successful result of worker w is said to enqueue, given
\* the links it found and the visited set of the moment
ExpectedChildren(w, links, visited) ==
    LET fresh == SelectSeq(links, LAMBDA link : link \notin visited)
    IN [k \in 1..Len(fresh) |->
           [url |-> fresh[k], depth |-> w.task.depth + 1, maxDepth |-> w.task.maxDepth,
            parentUrl |-> w.task.url, section |-> w.task.section,
            title |-> w.task.title \o <<"(linked)">>]]

IsSuffix(tail, whole) ==
    /\ Len(tail) <= Len(whole)
    /\ tail = SubSeq(whole, Len(whole) - Len(tail) + 1, Len(whole))

\* C32: a successful result appends one document with the task's section and
\* title, and appends the child tasks of its fresh links, in extraction
\* order, to the end of the pending queue; when the scheduling loop resumes
\* in the same step it only takes tasks from the front of that queue.
C32_SuccessAppendsDocumentAndChildren ==
    [][\A i \in 1..Len(workers) :
          (~workers[i].settled /\ workers'[i].settledBy = "success") =>
             LET w == workers'[i]
                 queue == pendingTasks \o ExpectedChildren(w, w.links, crawledUrls)
                 doc == results'[Len(results')]
             IN /\ Len(results') = Len(results) + 1
                /\ SubSeq(results', 1, Len(results)) = results
                /\ doc.url = w.task.url /\ doc.depth = w.task.depth
                /\ doc.section = w.task.section /\ doc.title = w.task.title
                /\ IsSuffix(pendingTasks', queue)
                /\ (pc \in {"sleep", "all"}) => (pendingTasks' = queue)]_vars

\* the result of C.md, found from A.md, arrived while the loop slept: D.md is
\* pending as its child at depth 2 and the visited A.md is not
C32_Witness ==
    /\ pc = "sleep"
    /\ \E i \in 1..Len(workers) :
          /\ workers[i].task.url = UrlC
          /\ workers[i].settledBy = "success"
          /\ workers[i].links = <<UrlD, UrlA>>
    /\ \E j \in 1..Len(pendingTasks) :
          /\ pendingTasks[j].url = UrlD
          /\ pendingTasks[j].parentUrl = UrlC
          /\ pendingTasks[j].depth = 2
          /\ pendingTasks[j].title = <<"a", "(linked)", "(linked)">>
    /\ \A j \in 1..Len(pendingTasks) : pendingTasks[j].url # UrlA

\* C33: a search (server.ts:644-646, possible at every await of a pass once
\* the server is serving) reads one complete index generation: the index a
\* search reads changes only in the step in which a pass ends, never between
\* the clear of a pass and the end of its refill.
C33_SearchReadsCompleteGeneration ==
    [][(phase = "serving" /\ Index' # Index) =>
           \E p \in Slots : Running(p) /\ passes'[p].pc = "done"]_vars

\* C34: when every dispatched worker settles, crawl() returns, whatever the
\* seeds and the options (maxWorkers = 0 included).
C34_CrawlReturns == <>(pc = "done")

\* the markdown links written in a page, and the URLs within n link hops of
\* the markdown seeds
LinkTargets(url) == {PageLinks(url)[i] : i \in {j \in 1..Len(PageLinks(url)) : KeepLink(PageLinks(url)[j])}}
MarkdownSeeds == {initialUrls[k].url : k \in {j \in 1..Len(initialUrls) : IsMarkdownUrl(initialUrls[j].url)}}
RECURSIVE Within(_)
Within(n) ==
    IF n = 0 THEN MarkdownSeeds
    ELSE Within(n - 1) \cup UNION {LinkTargets(url) : url \in Within(n - 1)}
Distance(url) == CHOOSE n \in 0..options.maxDepth :
                    url \in Within(n) /\ \A m \in 0..(n - 1) : url \notin Within(m)

\* C35: when every fetch succeeded and the budget was not reached, crawl()
\* returns the URLs within maxDepth hops of the markdown seeds, each with its
\* shortest hop distance as depth, whatever the order of completion.
C35_ResultIndependentOfOrder ==
    (/\ pc = "done"
     /\ Len(results) < options.maxDocuments
     /\ \A i \in 1..Len(workers) : workers[i].settledBy = "success") =>
        /\ ResultUrls = Within(options.maxDepth)
        /\ \A k \in 1..Len(results) : results[k].depth = Distance(results[k].url)

\* C36: status.inProgress is true exactly while some indexAll pass is between
\* its start and its finally block.
C36_InProgressTracksPasses ==
    status.inProgress <=> (\E p \in Slots : Running(p))

\* C37: every chunk the worker sends for the companion document is held as
\* its own document once indexFullDocument has handled the answer: on an
\* index that the pass has just cleared, the documents held afterwards are as
\* many as the chunks.
C37_EveryChunkIndexed ==
    [][\A p \in Slots :
          (passes[p].pc = "full" /\ passes'[p].pc # "full" /\ documents = <<>>) =>
              Len(documents') = passes'[p].chunked]_vars

\* the documents that pass the section filter and hold a token of the query
Holding(query, section) ==
    {documents[i].id : i \in
        {j \in 1..Len(documents) :
            /\ (section = <<>> \/ toLowerCase(documents[j].section) = toLowerCase(section))
            /\ Range(DocTokens(documents[j])) \cap Range(tokenize(query)) # {}}}

\* C38: every term's document frequency is between 1 and the number of
\* documents, so its idf is positive; and a query that has tokens, searched
\* with a limit of at least the number of documents, returns exactly the
\* documents that pass the section filter and hold one of its tokens, each
\* once.
C38_SearchFindsEveryHolder ==
    /\ \A t \in DOMAIN termDocFreq :
          /\ termDocFreq[t] >= 1
          /\ termDocFreq[t] <= Len(documents)
          /\ Idf(Max(Len(documents), 1), termDocFreq[t]) > 0
    /\ \A query \in Queries, section \in SectionFilters :
          tokenize(query) # <<>> =>
             LET rs == search(Index, query, Len(documents), section)
             IN /\ ReturnedIds(rs) = Holding(query, section)
                /\ Len(rs) = Cardinality(ReturnedIds(rs))

\* two documents hold "dog", which every document of the index then holds:
\* a search for it in the section of one of them has returned that one
C38_Witness ==
    /\ Len(documents) = 2
    /\ \A i \in 1..2 : <<"d", "o", "g">> \in Range(DocTokens(documents[i]))
    /\ termDocFreq[<<"d", "o", "g">>] = 2
    /\ documents[1].section # documents[2].section
    /\ lastSearch.called
    /\ lastSearch.query = <<"d", "o", "g", ",", " ", "d", "o", "g">>
    /\ lastSearch.section # <<>>
    /\ Len(lastSearch.results) = 1

\* C39: a fetch of a crawl worker that returns a success result returns the
\* body of a successful (2xx) response for its URL: the one it received in
\* this fetch, or the one a cached entry was made from; a cached failure
\* entry is never returned as a success.
SuccessfulBody(call) ==
    \/ /\ call.response # NoEntry
       /\ call.response.ok
       /\ call.result.content = call.response.body
    \/ /\ call.cached # NoEntry
       /\ call.cached.ok
       /\ call.cached.url = call.url
       /\ call.result.content = call.cached.content

====
